---- MODULE Spec2Model ----
(***************************************************************************)
(* Model of the Delver conversation orchestrator: ChatLoop.run and         *)
(* ChatLoop.handleToolCalls (src/src/generation/chat-loop.ts), the         *)
(* streaming bridge generate (src/src/generation/generate.ts), and the     *)
(* collaborators they call: ContextManager, TokenEstimator,                *)
(* PermissionManager and ToolRegistry.                                     *)
(*                                                                         *)
(* JavaScript runs one task at a time, so one action of the model is the   *)
(* code that runs between two suspension points (an await that waits for   *)
(* the provider, the permission callback or a tool).  pc names the         *)
(* suspension point the innermost run is waiting at.  The cancellation     *)
(* signal and the settings can change only while the loop is suspended.    *)
(*                                                                         *)
(* An optional field of a TypeScript object is a sequence of length 0      *)
(* (undefined) or 1 (the value).                                           *)
(***************************************************************************)
EXTENDS Integers, Sequences, FiniteSets, TLC

(***************************************************************************)
(* Bounds of the model.                                                    *)
(***************************************************************************)
\* what the provider delivers in one turn: every content chunk, thinking chunk,
\* tool_call chunk and tool call of a tool_call chunk counts one
MaxOutput == 3
\* the longest conversation (non-system messages) of a session handed to the
\* ContextManager
MaxConv == 22
\* the most system messages such a session holds
MaxSystems == 2
\* how often getActiveMessages, and getContextState, is called on one session
MaxCalls == 2

(***************************************************************************)
(* Program constants.                                                      *)
(***************************************************************************)
CHARS_PER_TOKEN == 4
RecentCount == 10
RollingWindowSize == 20
ModelMaxTokens == 8192

None == <<>>
Some(v) == <<v>>
IsSome(o) == o # <<>>
\* JavaScript truthiness of an optional string: undefined and "" are falsy
Truthy(o) == o # <<>> /\ o[1] # ""
\* a || b on optional strings
OrElse(a, b) == IF Truthy(a) THEN a ELSE b

Policies == {"ask", "allow", "deny", "disabled"}

\* ToolRegistry.tools after the view registered its tools
RegisteredTools == {"vault_read", "list_references"}
\* names a model may put in a tool call
CallNames == RegisteredTools \cup {"unknown_tool"}
\* the sessions tried: contextMode and contextLimit (0 stands for unset)
SessionConfigs ==
    {[mode |-> "rolling", limit |-> 0],
     [mode |-> "halting", limit |-> 1], [mode |-> "halting", limit |-> 40]}
\* the tools whose policy the user changes in the settings tab
ConfiguredTools == {"vault_read"}

NoArgs == [k \in {} |-> ""]
PathArgs(p) == [k \in {"path"} |-> p]
ArgsOf(name) == IF name = "vault_read" THEN PathArgs("n") ELSE NoArgs

\* a ToolCall as the provider delivers it
NewToolCall(name) ==
    [name |-> name, arguments |-> ArgsOf(name),
     permissionStatus |-> None, result |-> None, error |-> None]

\* a DelverMessage; Date.now() is the clock of the model, which advances by one
\* with every message the loop creates, so a message made by the loop has its
\* id for timestamp
Message(id, role, content) ==
    [id |-> id, role |-> role, content |-> content, thinking |-> None,
     tool_calls |-> None, tool_name |-> None, timestamp |-> id, isStreaming |-> None]

RECURSIVE SeqsUpTo(_, _)
SeqsUpTo(S, n) ==
    IF n = 0 THEN {<<>>}
    ELSE LET shorter == SeqsUpTo(S, n - 1)
         IN  shorter \cup {Append(s, x) : s \in {t \in shorter : Len(t) = n - 1}, x \in S}

\* chunk.tool_calls of a tool_call chunk: undefined, or a list of calls
ToolCallLists == {None} \cup {Some(cs) : cs \in SeqsUpTo({NewToolCall(n) : n \in CallNames}, MaxOutput - 1)}

(***************************************************************************)
(* TokenEstimator                                                          *)
(***************************************************************************)
\* length of JSON.stringify of a string without characters to escape
JsonStrLen(s) == Len(s) + 2

\* the "key":"value" entries of JSON.stringify(arguments), commas included
RECURSIVE EntriesJsonLen(_, _)
EntriesJsonLen(a, keys) ==
    IF keys = {} THEN 0
    ELSE LET k == CHOOSE x \in keys : TRUE
         IN  JsonStrLen(k) + 1 + JsonStrLen(a[k])
             + (IF keys \ {k} # {} THEN 1 ELSE 0) + EntriesJsonLen(a, keys \ {k})

\* length of JSON.stringify(arguments)
ArgsJsonLen(a) == 2 + EntriesJsonLen(a, DOMAIN a)

\* length of JSON.stringify(toolCall): keys in insertion order
CallJsonLen(c) ==
    Len("{\"function\":{\"name\":") + JsonStrLen(c.name)
    + Len(",\"arguments\":") + ArgsJsonLen(c.arguments) + Len("}")
    + (IF IsSome(c.permissionStatus)
       THEN Len(",\"permissionStatus\":") + JsonStrLen(c.permissionStatus[1]) ELSE 0)
    + (IF IsSome(c.result) THEN Len(",\"result\":") + JsonStrLen(c.result[1]) ELSE 0)
    + (IF IsSome(c.error) THEN Len(",\"error\":") + JsonStrLen(c.error[1]) ELSE 0)
    + Len("}")

RECURSIVE CallsJsonLen(_)
CallsJsonLen(cs) ==
    IF cs = <<>> THEN 0
    ELSE CallJsonLen(Head(cs)) + (IF Len(cs) > 1 THEN 1 ELSE 0) + CallsJsonLen(Tail(cs))

\* length of JSON.stringify(message.tool_calls)
ToolCallsJsonLen(cs) == 2 + CallsJsonLen(cs)

CharCount(m) ==
    Len(m.content)
    + (IF Truthy(m.thinking) THEN Len(m.thinking[1]) ELSE 0)
    + (IF IsSome(m.tool_calls) THEN ToolCallsJsonLen(m.tool_calls[1]) ELSE 0)

\* Math.ceil(charCount / CHARS_PER_TOKEN)
ComputeTokens(m) == (CharCount(m) + CHARS_PER_TOKEN - 1) \div CHARS_PER_TOKEN

\* getCacheKey: `${id}-${timestamp}`
GetCacheKey(m) == <<m.id, m.timestamp>>

\* F applied to the value of x, computed once
With(x, F(_)) == CHOOSE r \in {F(v) : v \in {x}} : TRUE

\* estimateMessage: [tokens, cache] where cache is the map after the call
EstimateMessage(m, cache) ==
    IF GetCacheKey(m) \in DOMAIN cache
    THEN [tokens |-> cache[GetCacheKey(m)], cache |-> cache]
    ELSE [tokens |-> ComputeTokens(m),
          cache |-> [k \in DOMAIN cache \cup {GetCacheKey(m)} |->
                        IF k = GetCacheKey(m) THEN ComputeTokens(m) ELSE cache[k]]]

\* estimateMessages: reduce from the left, each call seeing the cache left by the one before
RECURSIVE EstimateMessages(_, _)
EstimateMessages(ms, cache) ==
    IF ms = <<>> THEN [tokens |-> 0, cache |-> cache]
    ELSE With(EstimateMessage(Head(ms), cache), LAMBDA h :
         With(EstimateMessages(Tail(ms), h.cache), LAMBDA t :
            [tokens |-> h.tokens + t.tokens, cache |-> t.cache]))

(***************************************************************************)
(* ContextManager                                                          *)
(***************************************************************************)
\* allMessages.filter(m => m.role !== 'system')
ConversationMessages(ms) == SelectSeq(ms, LAMBDA m : m.role # "system")

\* allMessages.find(m => m.role === 'system'): the first system message, if any
SystemPrompt(ms) ==
    LET sys == SelectSeq(ms, LAMBDA m : m.role = "system")
    IN  IF sys = <<>> THEN None ELSE Some(Head(sys))

\* messages.slice(-n), for n > 0
LastN(ms, n) == IF Len(ms) <= n THEN ms ELSE SubSeq(ms, Len(ms) - n + 1, Len(ms))

\* messages.slice(0, -n), for n > 0
AllButLastN(ms, n) == IF Len(ms) <= n THEN <<>> ELSE SubSeq(ms, 1, Len(ms) - n)

\* session.contextLimit || maxTokens
ResolveBudget(limit, maxTokens) == IF limit # 0 THEN limit ELSE maxTokens

ContextLimitText(tokenCount, maxTokens) ==
    "Context limit exceeded: " \o ToString(tokenCount) \o " tokens > "
    \o ToString(maxTokens) \o " tokens. Try switching to \"rolling\" or \"compaction\" mode, or increase the context limit."

\* a faulty variant of the window that keeps the first messages: slice(0, windowSize)
ApplyRollingWindowFromStart(conv) ==
    IF Len(conv) <= RollingWindowSize THEN conv ELSE SubSeq(conv, 1, RollingWindowSize)
\* applyRollingWindow: config.rollingWindowSize is always RollingWindowSize
ApplyRollingWindow(conv) == LastN(conv, RollingWindowSize)

\* applyHalting: the estimate of the whole conversation, and whether it throws
ApplyHalting(conv, budget, cache) ==
    LET e == EstimateMessages(conv, cache)
    IN  [threw |-> e.tokens > budget,
         error |-> ContextLimitText(e.tokens, budget),
         cache |-> e.cache,
         messages |-> IF e.tokens > budget THEN <<>> ELSE conv]

\* how many messages of ms have the role
CountRole(ms, role) == Len(SelectSeq(ms, LAMBDA m : m.role = role))

\* createCompactionSummary at time now; its id `compaction-${now}` is no id of a
\* stored message and is written -now
CreateCompactionSummary(older, now) ==
    [Message(0 - now, "system",
        "[Previous conversation summary: " \o ToString(Len(older)) \o " messages ("
        \o ToString(CountRole(older, "user")) \o " from user, "
        \o ToString(CountRole(older, "assistant"))
        \o " from assistant) have been compacted to save context. The key points and topics discussed are preserved above this message.]")
     EXCEPT !.timestamp = now]

\* applyCompaction estimates the last RecentCount messages when there are more
CompactionEstimate(conv, cache) ==
    IF Len(conv) <= RecentCount THEN cache
    ELSE EstimateMessages(LastN(conv, RecentCount), cache).cache

\* applyCompaction; recentTokens >= config.maxTokens * 0.8 is decided in integers
\* as 10 * recentTokens >= 8 * maxTokens
ApplyCompaction(conv, budget, cache, now) ==
    IF Len(conv) <= RecentCount
    THEN [messages |-> conv, cache |-> cache]
    ELSE LET recent == LastN(conv, RecentCount)
             older == AllButLastN(conv, RecentCount)
             e == EstimateMessages(recent, cache)
         IN  [messages |-> IF 10 * e.tokens >= 8 * budget
                           THEN ApplyRollingWindow(conv)
                           ELSE <<CreateCompactionSummary(older, now)>> \o recent,
              cache |-> CompactionEstimate(conv, cache)]

\* String(n).padStart(2, '0')
Pad2(n) == IF Len(ToString(n)) < 2 THEN "0" \o ToString(n) ELSE ToString(n)

\* new Date(timestamp), read with getFullYear, getMonth, getDate, getDay,
\* getHours, getMinutes and getSeconds in a local time zone without offset:
\* the civil date of the day number, for timestamps >= 0
DateFields(timestamp) ==
    LET days == timestamp \div 86400000
        z == days + 719468
        era == z \div 146097
        doe == z - era * 146097
        yoe == (doe - doe \div 1460 + doe \div 36524 - doe \div 146096) \div 365
        doy == doe - (365 * yoe + yoe \div 4 - yoe \div 100)
        mp == (5 * doy + 2) \div 153
        m == IF mp < 10 THEN mp + 3 ELSE mp - 9
    IN  [year |-> yoe + era * 400 + (IF m <= 2 THEN 1 ELSE 0),
         month |-> m - 1,
         date |-> doy - (153 * mp + 2) \div 5 + 1,
         day |-> (days + 4) % 7,
         hours |-> (timestamp \div 3600000) % 24,
         minutes |-> (timestamp \div 60000) % 60,
         seconds |-> (timestamp \div 1000) % 60]

MonthNames ==
    <<"January", "February", "March", "April", "May", "June", "July", "August",
      "September", "October", "November", "December">>
DayNames ==
    <<"Sunday", "Monday", "Tuesday", "Wednesday", "Thursday", "Friday", "Saturday">>

\* the metadata block of formatUserMessageWithMetadata
Metadata(timestamp) ==
    LET d == DateFields(timestamp)
        datetime == ToString(d.year) \o "-" \o Pad2(d.month + 1) \o "-" \o Pad2(d.date)
                    \o " " \o Pad2(d.hours) \o ":" \o Pad2(d.minutes) \o ":" \o Pad2(d.seconds)
    IN  "<metadata>\n  <datetime datetime=\"" \o datetime \o "\" month=\""
        \o MonthNames[d.month + 1] \o "\" day=\"" \o DayNames[d.day + 1]
        \o "\" />\n</metadata>\n\n"

\* formatUserMessageWithMetadata: a new message, the stored one is not touched
FormatUserMessageWithMetadata(m) == [m EXCEPT !.content = Metadata(m.timestamp) \o @]

\* activeMessages.map(...): user messages formatted, the others as they are
RECURSIVE FormatUserMessages(_)
FormatUserMessages(ms) ==
    IF ms = <<>> THEN <<>>
    ELSE <<IF Head(ms).role = "user" THEN FormatUserMessageWithMetadata(Head(ms))
           ELSE Head(ms)>> \o FormatUserMessages(Tail(ms))

\* getActiveMessages called at time now: whether it throws, the text of the
\* error, the estimator's cache afterwards, and the list it returns
SelectActive(ms, mode, limit, maxTokens, cache, now) ==
    LET conv == ConversationMessages(ms)
        budget == ResolveBudget(limit, maxTokens)
        sel == CASE mode = "halting" -> ApplyHalting(conv, budget, cache)
                 [] mode = "compaction" ->
                        [threw |-> FALSE, error |-> "",
                         cache |-> ApplyCompaction(conv, budget, cache, now).cache,
                         messages |-> ApplyCompaction(conv, budget, cache, now).messages]
                 [] mode = "rolling" ->
                        [threw |-> FALSE, error |-> "", cache |-> cache,
                         messages |-> ApplyRollingWindow(conv)]
                 [] OTHER ->
                        [threw |-> FALSE, error |-> "", cache |-> cache, messages |-> <<>>]
    IN  [sel EXCEPT !.messages =
            IF sel.threw THEN <<>>
            ELSE (IF IsSome(SystemPrompt(ms)) THEN SystemPrompt(ms) ELSE <<>>)
                 \o FormatUserMessages(@)]

(***************************************************************************)
(* PermissionManager and ToolRegistry                                      *)
(***************************************************************************)
\* DEFAULT_SETTINGS.toolPermissions, for the tools of the model
DefaultPermissions ==
    [t \in RegisteredTools |-> IF t = "list_references" THEN "allow" ELSE "ask"]

\* a faulty variant that answers from the permissions the manager was
\* constructed with, whatever updatePermissions stored since
GetPermissionAsConstructed(perms, name) ==
    IF name \in DOMAIN DefaultPermissions THEN DefaultPermissions[name] ELSE "ask"
\* this.permissions[toolName] || 'ask'
GetPermission(perms, name) == IF name \in DOMAIN perms THEN perms[name] ELSE "ask"
RequiresPrompt(perms, name) == GetPermission(perms, name) = "ask"
\* a faulty variant of isDenied that never reports a denial
IsDeniedNever(perms, name) == FALSE
IsDenied(perms, name) == GetPermission(perms, name) = "deny"
IsDisabled(perms, name) == GetPermission(perms, name) = "disabled"

\* toolRegistry.getTool(name) is defined
HasTool(name) == name \in RegisteredTools

\* a tool: its name and its description
Tool(name, description) == [name |-> name, description |-> description]
\* BaseTool.toDefinition (the parameters schema is left out)
ToDefinition(tool) ==
    [type |-> "function",
     function |-> [name |-> tool.name, description |-> tool.description]]
\* the names of the tools the view registers
ToolNames == RegisteredTools \cup {"vault_search"}
\* the tools offered for registration: each name in two versions
ToolVersions ==
    {Tool(name, d) : name \in ToolNames, d \in {"first version", "second version"}}
\* the permission maps handed to getEnabledTools: a policy for some of the names
PermissionMaps ==
    UNION {[names -> Policies] : names \in SUBSET ToolNames}
\* ToolRegistry.register: this.tools.set(tool.name, tool); a Map keeps its keys
\* in insertion order, and setting an existing key keeps the key's place
Register(reg, tool) ==
    IF \E i \in 1..Len(reg) : reg[i].name = tool.name
    THEN [i \in 1..Len(reg) |-> IF reg[i].name = tool.name THEN tool ELSE reg[i]]
    ELSE Append(reg, tool)
\* a faulty variant of getEnabledTools that hides the denied tools as well
GetEnabledToolsWithoutDenied(reg, perms) ==
    LET Keep(t) == GetPermission(perms, t.name) \notin {"disabled", "deny"}
        F[i \in 0..Len(reg)] ==
            IF i = 0 THEN <<>>
            ELSE IF Keep(reg[i]) THEN Append(F[i - 1], ToDefinition(reg[i])) ELSE F[i - 1]
    IN  F[Len(reg)]
\* ToolRegistry.getEnabledTools: the values of the map, filtered on
\* (permissions[tool.name] || 'ask') !== 'disabled', mapped to toDefinition
GetEnabledTools(reg, perms) ==
    LET Keep(t) == GetPermission(perms, t.name) # "disabled"
        F[i \in 0..Len(reg)] ==
            IF i = 0 THEN <<>>
            ELSE IF Keep(reg[i]) THEN Append(F[i - 1], ToDefinition(reg[i])) ELSE F[i - 1]
    IN  F[Len(reg)]
\* the registry after the view registered its tools
ViewTools ==
    Register(Register(<<>>, Tool("vault_read", "first version")),
             Tool("list_references", "first version"))


(***************************************************************************)
(* Tools                                                                   *)
(***************************************************************************)
\* every tool call of every message, in session order
RECURSIVE AllToolCalls(_)
AllToolCalls(ms) ==
    IF ms = <<>> THEN <<>>
    ELSE (IF IsSome(Head(ms).tool_calls) THEN Head(ms).tool_calls[1] ELSE <<>>)
         \o AllToolCalls(Tail(ms))

\* the scan of ListReferencesTool.execute with unique_only at its default:
\* the path of every vault_read call, first occurrence only
RECURSIVE References(_, _)
References(cs, refs) ==
    IF cs = <<>> THEN refs
    ELSE LET c == Head(cs)
             hasPath == c.name = "vault_read" /\ "path" \in DOMAIN c.arguments
                        /\ c.arguments["path"] # ""
             seen == hasPath /\ \E i \in 1..Len(refs) : refs[i] = c.arguments["path"]
         IN  References(Tail(cs), IF hasPath /\ ~seen
                                  THEN Append(refs, c.arguments["path"]) ELSE refs)

RECURSIVE JoinPaths(_)
JoinPaths(refs) ==
    IF refs = <<>> THEN ""
    ELSE Head(refs) \o (IF Len(refs) > 1 THEN "," ELSE "") \o JoinPaths(Tail(refs))

\* the text list_references returns: the count and the files found in the session
ListReferencesResult(ms) ==
    LET refs == References(AllToolCalls(ms), <<>>)
    IN  "count=" \o ToString(Len(refs)) \o " files=[" \o JoinPaths(refs) \o "]"

\* what execute of a registered tool may resolve with
ToolResults(name, ms) ==
    IF name = "list_references" THEN {ListReferencesResult(ms)} ELSE {"x", ""}

\* error.message of what execute may throw
ToolFailures(name) ==
    IF name = "vault_read" THEN {"File not found: n"} ELSE {}

(***************************************************************************)
(* State                                                                   *)
(***************************************************************************)
VARIABLES
    messages,        \* session.messages
    contextMode,     \* session.contextMode
    contextLimit,    \* session.contextLimit, 0 when unset
    updatedAt,       \* session.updatedAt
    permissions,     \* PermissionManager.permissions
    tools,           \* ToolRegistry.tools, in insertion order
    tokenCache,      \* TokenEstimator.tokenCache
    active,          \* what the last getActiveMessages call gave, n counting the calls
    contextState,    \* what the last getContextState call gave, n counting the calls
    enabled,         \* what the last getEnabledTools call gave, n counting the calls
    pc,              \* where the innermost run is suspended
    round,           \* number of run invocations of the turn so far
    draft,           \* assistantMessage of the innermost run
    think,           \* genOptions.think of the innermost run
    output,          \* what the provider delivered in the turn so far
    asstIdx,         \* position in session.messages of the message whose tool calls are processed
    toolIdx,         \* position in its tool_calls of the call being processed
    openStreams,     \* provider streams opened and not yet closed
    aborted,         \* signal.aborted
    abortedAt,       \* the await the loop was suspended at when the signal was raised, "" before
    runResult,       \* the promise of the top-level run: pending, resolved or rejected
    nextId,          \* source of fresh message ids
    log,             \* the calls made on the callbacks, the provider and the tools, in order
    initMessages,    \* session.messages when run was called
    roundStart,      \* session.messages when the innermost run was entered
    ctxFailedRound,  \* the round whose getActiveMessages threw, 0 if none
    abortController, \* ChatView.abortController: 0 for null, else the controller's number
    abortedSignals,  \* the controllers whose signal is aborted
    loading,         \* the runChatLoop invocations whose loading indicator is in the container
    inputDisabled,   \* whether the input textarea is disabled
    inputText,       \* the value of the input textarea
    tasks,           \* the command handlers of the view, each with the await it is at
    closing,         \* how far onClose has got
    openSessions,    \* settings.openSessions
    chatSessions     \* the ids that settings.chatSessions has an entry for

\* the state of the view and of the plugin's settings
viewVars ==
    <<abortController, abortedSignals, loading, inputDisabled, inputText, tasks, closing,
      openSessions, chatSessions>>

vars == <<messages, contextMode, contextLimit, updatedAt, permissions, tools, tokenCache, active,
          contextState, enabled, pc, round, draft,
          think, output, asstIdx, toolIdx, openStreams, aborted, abortedAt, runResult,
          nextId, log, initMessages, roundStart, ctxFailedRound, abortController,
          abortedSignals, loading, inputDisabled, inputText, tasks, closing, openSessions,
          chatSessions>>

\* one entry of the log; aborted is signal.aborted at the time of the call, msg and
\* idx name the tool call (or the message) the call is about, policy is the policy
\* the loop read for that tool call
Event(ev, arg, msg, idx, policy) ==
    [ev |-> ev, arg |-> arg, aborted |-> aborted, msg |-> msg, idx |-> idx, policy |-> policy]
Ev(ev, arg) == Event(ev, arg, 0, 0, "")

\* the awaits of run and handleToolCalls
Suspended == {"think", "stream", "perm", "exec", "notify"}

\* a faulty variant of the append: unshift instead of push
PushFront(ms, m) == <<m>> \o ms
\* session.messages.push(m)
Push(ms, m) == Append(ms, m)

\* before the first call of getActiveMessages and of getContextState
NoActive == [n |-> 0, mode |-> "", threw |-> FALSE, error |-> "", messages |-> <<>>]
NoEnabled == [n |-> 0, definitions |-> <<>>]

\* how many commands the user gives to one view
MaxCommands == 2
\* the id of the view's session
SessionId == "session-1"
\* a handler that was not started
NoTask ==
    [kind |-> "", pc |-> "none", signal |-> 0, wasCancelled |-> FALSE, accumulated |-> FALSE]
\* an open view with its session stored, no command given and nothing typed
ViewAtRest ==
    /\ abortController = 0
    /\ abortedSignals = {}
    /\ loading = <<>>
    /\ inputDisabled = FALSE
    /\ inputText = ""
    /\ tasks = [t \in 1..MaxCommands |-> NoTask]
    /\ closing = "open"
    /\ openSessions = {SessionId}
    /\ chatSessions = {SessionId}
NoContextState ==
    [n |-> 0, mode |-> "", threw |-> FALSE, error |-> "", messages |-> <<>>, activeMessages |-> <<>>,
     currentTokens |-> 0, maxTokens |-> 0]

Init ==
    /\ messages = <<Message(1, "system", "You are Delver"), Message(2, "user", "hello")>>
    /\ \E cfg \in SessionConfigs : contextMode = cfg.mode /\ contextLimit = cfg.limit
    /\ updatedAt = 2
    /\ permissions = DefaultPermissions
    /\ tools = ViewTools
    /\ tokenCache = [k \in {} |-> 0]
    /\ active = NoActive
    /\ contextState = NoContextState
    /\ enabled = NoEnabled
    /\ ViewAtRest
    /\ pc = "idle"
    /\ round = 0
    /\ draft = Message(0, "assistant", "")
    /\ think = FALSE
    /\ output = 0
    /\ asstIdx = 0
    /\ toolIdx = 0
    /\ openStreams = 0
    /\ aborted = FALSE
    /\ abortedAt = ""
    /\ runResult = "pending"
    /\ nextId = 3
    /\ log = <<>>
    /\ initMessages = messages
    /\ roundStart = messages
    /\ ctxFailedRound = 0

(***************************************************************************)
(* ChatLoop.run, up to its first await                                     *)
(***************************************************************************)
\* Lines 62-75 of run: getActiveMessages, getEnabledTools, then the await of
\* checkThinkingSupport.  getActiveMessages is called outside run's try block:
\* when it throws, the top-level run rejects; a nested run, called from
\* handleToolCalls inside the try block of the enclosing run, throws into that
\* run's catch, which calls onError, and every enclosing run then returns.
EnterRunOn(nested, ms, cache) ==
    LET sel == SelectActive(ms, contextMode, contextLimit, ModelMaxTokens, cache, nextId)
    IN  /\ tokenCache' = sel.cache
        /\ active' = [n |-> active.n + 1, mode |-> contextMode, threw |-> sel.threw, error |-> sel.error,
                      messages |-> sel.messages]
        /\ enabled' = IF sel.threw THEN enabled
                      ELSE [n |-> enabled.n + 1,
                            definitions |-> GetEnabledTools(tools, permissions)]
        /\ round' = round + 1
        /\ roundStart' = ms
        /\ IF sel.threw
           THEN /\ pc' = "done"
                /\ ctxFailedRound' = round + 1
                /\ openStreams' = 0
                /\ runResult' = IF nested THEN "resolved" ELSE "rejected"
                /\ log' = IF nested
                          THEN log \o <<Ev("run", ""), Ev("onError", OrElse(Some(sel.error), Some("Unknown error"))[1])>>
                          ELSE Append(log, Ev("run", ""))
           ELSE /\ pc' = "think"
                /\ log' = log \o <<Ev("run", ""), Ev("getModelInfo", "")>>
                /\ UNCHANGED <<ctxFailedRound, openStreams, runResult>>

\* run entered on the session as it is, by a caller that leaves the context
\* display alone
EnterRun(nested) ==
    /\ EnterRunOn(nested, messages, tokenCache)
    /\ UNCHANGED contextState

\* the caller starts a turn: chatLoop.run(session, ...)
Run ==
    /\ pc = "idle"
    /\ EnterRun(FALSE)
    /\ initMessages' = messages
    /\ UNCHANGED <<messages, contextMode, contextLimit, updatedAt, think, output, permissions, tools, viewVars, draft, asstIdx,
                   toolIdx, aborted, abortedAt, nextId>>

\* a faulty variant of checkThinkingSupport that takes a failed query for
\* support of thinking
SupportsThinkingUnlessPlain(outcome) == outcome # "plain"
\* checkThinkingSupport: modelInfo.supportsThinking, false when getModelInfo
\* threw
SupportsThinking(outcome) == outcome = "thinking"

\* a faulty variant that goes on with the text of the message of the round
\* before
CarriedAssistantMessage(d, id) ==
    [Message(id, "assistant", d.content) EXCEPT !.thinking = d.thinking,
                                                !.isStreaming = Some(TRUE)]
\* the assistant message run creates: empty content, isStreaming true; d is the
\* message of the round before, which run does not read
NewAssistantMessage(d, id) ==
    [Message(id, "assistant", "") EXCEPT !.isStreaming = Some(TRUE)]

\* checkThinkingSupport settles (a failed getModelInfo gives false), run creates
\* the assistant message and the for-await asks generate, and generate the
\* provider, for the first chunk: the provider stream is open
ModelInfo(outcome) ==
    /\ pc = "think"
    /\ draft' = NewAssistantMessage(draft, nextId)
    /\ nextId' = nextId + 1
    /\ think' = SupportsThinking(outcome)
    /\ openStreams' = openStreams + 1
    /\ log' = Append(log, Ev("generate", ""))
    /\ pc' = "stream"
    /\ UNCHANGED <<messages, contextMode, contextLimit, updatedAt, output, permissions, tools, viewVars, tokenCache, active, contextState, enabled, round, asstIdx,
                   toolIdx, aborted, abortedAt, runResult, initMessages, roundStart,
                   ctxFailedRound>>

(***************************************************************************)
(* The stream: generate and the for-await loop of run                      *)
(***************************************************************************)
\* what a finished turn leaves: every enclosing run returns and the
\* for-await loops they leave close their streams
Finished(events) ==
    /\ pc' = "done"
    /\ think' = FALSE
    /\ runResult' = "resolved"
    /\ openStreams' = 0
    /\ log' = log \o events

\* the types of a GenerationChunk
ChunkTypes == {"content", "thinking", "tool_call", "done", "error"}

\* a faulty variant that forwards the chunk before it reports the cancellation
StreamCancelledForwarding(type) ==
    /\ pc = "stream"
    /\ aborted
    /\ draft' = [draft EXCEPT !.isStreaming = Some(FALSE)]
    /\ Finished(<<Ev("delivered", type), Ev("onChunk", type), Ev("cancelGeneration", ""),
                  Ev("onError", "Generation cancelled")>>)
    /\ UNCHANGED <<messages, contextMode, contextLimit, updatedAt, output, permissions, tools, viewVars,
                   tokenCache, active, contextState, enabled, round, asstIdx, toolIdx,
                   aborted, abortedAt, nextId, initMessages, roundStart, ctxFailedRound>>

\* generate finds signal.aborted when the provider delivers a chunk, of
\* whatever type: it calls cancelGeneration and yields the error chunk
\* 'Generation cancelled' in place of the chunk, and run reports it
StreamCancelled(type) ==
    /\ pc = "stream"
    /\ aborted
    /\ draft' = [draft EXCEPT !.isStreaming = Some(FALSE)]
    /\ Finished(<<Ev("delivered", type), Ev("cancelGeneration", ""),
                  Ev("onError", "Generation cancelled")>>)
    /\ UNCHANGED <<messages, contextMode, contextLimit, updatedAt, output, permissions, tools, viewVars, tokenCache, active, contextState, enabled, round, asstIdx, toolIdx, aborted, abortedAt, nextId, initMessages, roundStart,
                   ctxFailedRound>>

\* a content chunk
ChunkContent ==
    /\ pc = "stream"
    /\ ~aborted
    /\ output < MaxOutput
    /\ draft' = [draft EXCEPT !.content = @ \o "a"]
    /\ output' = output + 1
    /\ log' = log \o <<Ev("delivered", "content"), Ev("onChunk", "content")>>
    /\ UNCHANGED <<messages, contextMode, contextLimit, updatedAt, think, permissions, tools, viewVars, tokenCache, active, contextState, enabled, pc, round,
                   asstIdx, toolIdx, openStreams, aborted, abortedAt, runResult, nextId,
                   initMessages, roundStart, ctxFailedRound>>

\* a thinking chunk
ChunkThinking ==
    /\ pc = "stream"
    /\ ~aborted
    /\ output < MaxOutput
    /\ draft' = [draft EXCEPT !.thinking = Some(OrElse(@, Some(""))[1] \o "t")]
    /\ output' = output + 1
    /\ log' = log \o <<Ev("delivered", "thinking"), Ev("onChunk", "thinking")>>
    /\ UNCHANGED <<messages, contextMode, contextLimit, updatedAt, think, permissions, tools, viewVars, tokenCache, active, contextState, enabled, pc, round,
                   asstIdx, toolIdx, openStreams, aborted, abortedAt, runResult, nextId,
                   initMessages, roundStart, ctxFailedRound>>

\* the done chunk: generate returns after yielding it, the loop ends, run
\* appends the message and reports completion
ChunkDone ==
    /\ pc = "stream"
    /\ ~aborted
    /\ draft' = [draft EXCEPT !.isStreaming = Some(FALSE)]
    /\ messages' = Push(messages, draft')
    /\ Finished(<<Ev("delivered", "done"), Ev("onChunk", "done"),
                  Event("onComplete", "", Len(messages'), 0, "")>>)
    /\ UNCHANGED <<contextMode, contextLimit, updatedAt, output, permissions, tools, viewVars, tokenCache, active, contextState, enabled, round, asstIdx,
                   toolIdx, aborted, abortedAt, nextId, initMessages, roundStart,
                   ctxFailedRound>>

\* the provider's stream ends without a done chunk (the reader reports the end of
\* the body): generate checks the signal only when a chunk arrives, so the loop
\* of run ends normally
StreamEnd ==
    /\ pc = "stream"
    /\ messages' = Push(messages, draft)
    /\ Finished(<<Event("onComplete", "", Len(messages'), 0, "")>>)
    /\ UNCHANGED <<contextMode, contextLimit, updatedAt, output, permissions, tools, viewVars, tokenCache, active, contextState, enabled, round, draft, asstIdx, toolIdx, aborted, abortedAt, nextId, initMessages, roundStart,
                   ctxFailedRound>>

\* a faulty variant of the error branch that keeps the partial message
ChunkErrorKeepsDraft(err) ==
    /\ pc = "stream"
    /\ ~aborted
    /\ draft' = [draft EXCEPT !.isStreaming = Some(FALSE)]
    /\ messages' = Append(messages, draft')
    /\ Finished(<<Ev("delivered", "error"), Ev("onError", OrElse(err, Some("Unknown error"))[1])>>)
    /\ UNCHANGED <<contextMode, contextLimit, updatedAt, output, permissions, tools, viewVars, tokenCache, active, contextState, enabled, round, asstIdx,
                   toolIdx, aborted, abortedAt, nextId, initMessages, roundStart,
                   ctxFailedRound>>

\* an error chunk, chunk.error given or not
ChunkError(err) ==
    /\ pc = "stream"
    /\ ~aborted
    /\ draft' = [draft EXCEPT !.isStreaming = Some(FALSE)]
    /\ Finished(<<Ev("delivered", "error"), Ev("onError", OrElse(err, Some("Unknown error"))[1])>>)
    /\ UNCHANGED <<messages, contextMode, contextLimit, updatedAt, output, permissions, tools, viewVars, tokenCache, active, contextState, enabled, round, asstIdx, toolIdx, aborted, abortedAt, nextId, initMessages, roundStart,
                   ctxFailedRound>>

\* the provider throws: the catch of generate yields an error chunk, with
\* 'Generation cancelled' when the signal is raised and with
\* error.message || 'Unknown error' otherwise, and run reports it
ProviderThrows(msg) ==
    /\ pc = "stream"
    /\ draft' = [draft EXCEPT !.isStreaming = Some(FALSE)]
    /\ Finished(<<Ev("onError", IF aborted THEN "Generation cancelled"
                                ELSE OrElse(Some(msg), Some("Unknown error"))[1])>>)
    /\ UNCHANGED <<messages, contextMode, contextLimit, updatedAt, output, permissions, tools, viewVars,
                   tokenCache, active, contextState, enabled, round, asstIdx, toolIdx,
                   aborted, abortedAt, nextId, initMessages, roundStart, ctxFailedRound>>

(***************************************************************************)
(* ChatLoop.handleToolCalls                                                *)
(***************************************************************************)
\* message.tool_calls of the message whose calls are processed
CurrentCalls == messages[asstIdx].tool_calls[1]
CurrentCall == CurrentCalls[toolIdx]

\* the in-place update of one ToolCall of a message of the session
SetCall(ms, k, i, c) == [ms EXCEPT ![k].tool_calls = Some([@[1] EXCEPT ![i] = c])]

\* a faulty variant of a refusal that stores the error and leaves the call
\* without a status
DeniedWithoutStatus(c, text) == [c EXCEPT !.error = Some(text)]
Denied(c, text) == [c EXCEPT !.permissionStatus = Some("denied"), !.error = Some(text)]
Approved(c) == [c EXCEPT !.permissionStatus = Some("approved")]

\* toolCall.result || toolCall.error || 'No result'
ToolContent(c) == OrElse(c.result, OrElse(c.error, Some("No result")))[1]

\* the tool-role message pushed for a call
ToolMessage(id, c) ==
    [Message(id, "tool", ToolContent(c)) EXCEPT !.tool_name = Some(c.name)]

\* what a tool_call chunk counts in the provider's output
ChunkSize(tc) == 1 + (IF IsSome(tc) THEN Len(tc[1]) ELSE 0)

\* a faulty variant that leaves the message marked as streaming
WithToolCallsStreaming(d, tc) == [d EXCEPT !.tool_calls = tc]
\* assistantMessage.tool_calls = chunk.tool_calls; assistantMessage.isStreaming = false
WithToolCalls(d, tc) == [d EXCEPT !.tool_calls = tc, !.isStreaming = Some(FALSE)]

\* the tool_call chunk: run freezes the calls on the message, appends it and
\* calls handleToolCalls, which returns at once when tool_calls is undefined
ChunkToolCall(tc) ==
    /\ pc = "stream"
    /\ ~aborted
    /\ output + ChunkSize(tc) <= MaxOutput
    /\ output' = output + ChunkSize(tc)
    /\ draft' = WithToolCalls(draft, tc)
    /\ messages' = Push(messages, draft')
    /\ IF IsSome(tc)
       THEN /\ pc' = "tools"
            /\ asstIdx' = Len(messages')
            /\ toolIdx' = 1
            /\ log' = log \o <<Ev("delivered", "tool_call"), Ev("onChunk", "tool_call")>>
            /\ think' = FALSE
            /\ UNCHANGED <<openStreams, runResult>>
       ELSE /\ Finished(<<Ev("delivered", "tool_call"), Ev("onChunk", "tool_call")>>)
            /\ UNCHANGED <<asstIdx, toolIdx>>
    /\ UNCHANGED <<contextMode, contextLimit, updatedAt, permissions, tools, viewVars, tokenCache, active, contextState, enabled, round, aborted, abortedAt,
                   nextId, initMessages, roundStart, ctxFailedRound>>

\* one iteration of the for loop, up to its continue or its first await
ProcessToolCall ==
    /\ pc = "tools"
    /\ toolIdx <= Len(CurrentCalls)
    /\ LET c == CurrentCall
           name == c.name
           policy == GetPermission(permissions, name)
           refuse(text) ==
               /\ messages' = SetCall(messages, asstIdx, toolIdx, Denied(c, text))
               /\ toolIdx' = toolIdx + 1
               /\ UNCHANGED <<pc, log>>
       IN  CASE ~HasTool(name) -> refuse("Tool not found: " \o name)
             [] HasTool(name) /\ IsDisabled(permissions, name) ->
                    refuse("Tool is disabled: " \o name)
             [] HasTool(name) /\ ~IsDisabled(permissions, name) /\ IsDenied(permissions, name) ->
                    refuse("Tool is denied: " \o name)
             [] HasTool(name) /\ ~IsDisabled(permissions, name) /\ ~IsDenied(permissions, name)
                /\ RequiresPrompt(permissions, name) ->
                    /\ pc' = "perm"
                    /\ log' = Append(log, Event("onToolPermission", name, asstIdx, toolIdx, policy))
                    /\ UNCHANGED <<messages, toolIdx>>
             [] OTHER ->
                    /\ messages' = SetCall(messages, asstIdx, toolIdx, Approved(c))
                    /\ pc' = "exec"
                    /\ log' = Append(log, Event("execute", name, asstIdx, toolIdx, policy))
                    /\ UNCHANGED toolIdx
    /\ UNCHANGED <<contextMode, contextLimit, updatedAt, think, output, permissions, tools, viewVars, tokenCache, active, contextState, enabled, round, draft, asstIdx, openStreams, aborted, abortedAt, runResult, nextId,
                   initMessages, roundStart, ctxFailedRound>>

\* the permission callback resolves; the log keeps what it returned
PermissionResolved(approved) ==
    /\ pc = "perm"
    /\ IF approved
       THEN /\ messages' = SetCall(messages, asstIdx, toolIdx, Approved(CurrentCall))
            /\ pc' = "exec"
            /\ log' = log \o <<Event("returned", "true", asstIdx, toolIdx, ""),
                               Event("execute", CurrentCall.name, asstIdx, toolIdx,
                                     log[Len(log)].policy)>>
            /\ UNCHANGED toolIdx
       ELSE /\ messages' = SetCall(messages, asstIdx, toolIdx,
                                   Denied(CurrentCall, "Permission denied by user"))
            /\ pc' = "tools"
            /\ toolIdx' = toolIdx + 1
            /\ log' = Append(log, Event("returned", "false", asstIdx, toolIdx, ""))
    /\ UNCHANGED <<contextMode, contextLimit, updatedAt, think, output, permissions, tools, viewVars, tokenCache, active, contextState, enabled, round,
                   draft, asstIdx, openStreams, aborted, abortedAt, runResult, nextId,
                   initMessages, roundStart, ctxFailedRound>>

\* lines 222-229: the tool-role message of the call whose execute settled
AppendToolResult(c) ==
    /\ messages' = Push(SetCall(messages, asstIdx, toolIdx, c), ToolMessage(nextId, c))
    /\ nextId' = nextId + 1
    /\ toolIdx' = toolIdx + 1
    /\ pc' = "tools"

\* execute resolves with a result
ExecuteResolved(res) ==
    /\ pc = "exec"
    /\ res \in ToolResults(CurrentCall.name, messages)
    /\ AppendToolResult([CurrentCall EXCEPT !.result = Some(res)])
    /\ UNCHANGED <<contextMode, contextLimit, updatedAt, think, output, permissions, tools, viewVars, tokenCache, active, contextState, enabled, round, draft, asstIdx, openStreams, aborted, abortedAt, runResult, log,
                   initMessages, roundStart, ctxFailedRound>>

\* a faulty variant in which the failure of a tool escapes handleToolCalls and
\* reaches the catch of run
ExecuteRejectedEscalates(msg) ==
    /\ pc = "exec"
    /\ msg \in ToolFailures(CurrentCall.name)
    /\ Finished(<<Event("threw", msg, asstIdx, toolIdx, ""),
                  Ev("onError", OrElse(Some(msg), Some("Unknown error"))[1])>>)
    /\ UNCHANGED <<messages, contextMode, contextLimit, updatedAt, output, permissions, tools, viewVars, tokenCache, active, contextState, enabled, round,
                   draft, asstIdx, toolIdx, aborted, abortedAt, nextId, initMessages,
                   roundStart, ctxFailedRound>>

\* a faulty variant whose catch stores the failure as the result as well
ExecuteRejectedWithResult(msg) ==
    /\ pc = "exec"
    /\ msg \in ToolFailures(CurrentCall.name)
    /\ AppendToolResult([CurrentCall EXCEPT
                            !.result = Some(msg),
                            !.error = OrElse(Some(msg), Some("Tool execution failed"))])
    /\ log' = Append(log, Event("threw", msg, asstIdx, toolIdx, ""))
    /\ UNCHANGED <<contextMode, contextLimit, updatedAt, think, output, permissions, tools, viewVars, tokenCache, active, contextState, enabled, round,
                   draft, asstIdx, openStreams, aborted, abortedAt, runResult,
                   initMessages, roundStart, ctxFailedRound>>

\* execute throws: the catch stores error.message || 'Tool execution failed';
\* the log keeps what the tool threw
ExecuteRejected(msg) ==
    /\ pc = "exec"
    /\ msg \in ToolFailures(CurrentCall.name)
    /\ AppendToolResult([CurrentCall EXCEPT
                            !.error = OrElse(Some(msg), Some("Tool execution failed"))])
    /\ log' = Append(log, Event("threw", msg, asstIdx, toolIdx, ""))
    /\ UNCHANGED <<contextMode, contextLimit, updatedAt, think, output, permissions, tools, viewVars, tokenCache, active, contextState, enabled, round,
                   draft, asstIdx, openStreams, aborted, abortedAt, runResult,
                   initMessages, roundStart, ctxFailedRound>>

\* a faulty variant that goes on to the next round without calling
\* onToolCallsComplete
FinishToolCallsUnnotified ==
    /\ pc = "tools"
    /\ toolIdx > Len(CurrentCalls)
    /\ pc' = "notify"
    /\ UNCHANGED <<messages, contextMode, contextLimit, updatedAt, think, output, permissions, tools, viewVars, tokenCache, active, contextState, enabled, round, draft,
                   asstIdx, toolIdx, openStreams, aborted, abortedAt, runResult, nextId, log, initMessages, roundStart, ctxFailedRound>>

\* the loop is over: handleToolCalls awaits onToolCallsComplete
FinishToolCalls ==
    /\ pc = "tools"
    /\ toolIdx > Len(CurrentCalls)
    /\ pc' = "notify"
    /\ log' = Append(log, Event("onToolCallsComplete", "", asstIdx, 0, ""))
    /\ UNCHANGED <<messages, contextMode, contextLimit, updatedAt, think, output, permissions, tools, viewVars, tokenCache, active, contextState, enabled, round, draft,
                   asstIdx, toolIdx, openStreams, aborted, abortedAt, runResult, nextId, initMessages, roundStart, ctxFailedRound>>

\* onToolCallsComplete settled: handleToolCalls calls run again
ContinueGeneration ==
    /\ pc = "notify"
    /\ EnterRun(TRUE)
    /\ UNCHANGED <<messages, contextMode, contextLimit, updatedAt, think, output, permissions, tools, viewVars, draft, asstIdx,
                   toolIdx, aborted, abortedAt, nextId, initMessages>>

(***************************************************************************)
(* The environment                                                         *)
(***************************************************************************)
\* the user presses ESC: abortController.abort()
Abort ==
    /\ pc \in Suspended
    /\ ~aborted
    /\ aborted' = TRUE
    /\ abortedAt' = pc
    /\ UNCHANGED <<messages, contextMode, contextLimit, updatedAt, think, output, permissions, tools, viewVars, tokenCache, active, contextState, enabled, pc, round,
                   draft, asstIdx, toolIdx, openStreams, runResult, nextId, log, initMessages, roundStart, ctxFailedRound>>

\* ChatView.updateSettings: permissionManager.updatePermissions(settings.toolPermissions)
\* with the policy of one tool changed
UpdateSettings(tool, policy) ==
    /\ pc \in Suspended \cup {"idle"}
    /\ GetPermission(permissions, tool) # policy
    /\ permissions' = [permissions EXCEPT ![tool] = policy]
    /\ UNCHANGED <<messages, contextMode, contextLimit, updatedAt, tools, viewVars, think, output, tokenCache, active, contextState, enabled, pc, round, draft, asstIdx, toolIdx, openStreams, aborted, abortedAt, runResult, nextId, log,
                   initMessages, roundStart, ctxFailedRound>>

Next ==
    \/ Run
    \/ \E outcome \in {"thinking", "plain", "failed"} : ModelInfo(outcome)
    \/ \E type \in ChunkTypes : StreamCancelled(type)
    \/ ChunkContent
    \/ ChunkThinking
    \/ \E tc \in ToolCallLists : ChunkToolCall(tc)
    \/ ChunkDone
    \/ StreamEnd
    \/ \E err \in {None, Some("HTTP 500: Internal Server Error")} : ChunkError(err)
    \/ ProviderThrows("Failed to fetch")
    \/ ProcessToolCall
    \/ \E approved \in BOOLEAN : PermissionResolved(approved)
    \/ \E res \in {"x", "", ListReferencesResult(messages)} : ExecuteResolved(res)
    \/ ExecuteRejected("File not found: n")
    \/ FinishToolCalls
    \/ ContinueGeneration
    \/ Abort
    \/ \E tool \in ConfiguredTools, policy \in Policies : UpdateSettings(tool, policy)

Spec == Init /\ [][Next]_vars

(***************************************************************************)
(* The ContextManager on its own: the sessions a view can hold (created,    *)
(* continued or imported from a file), and the calls the view makes on      *)
(* them.                                                                    *)
(***************************************************************************)
\* session.contextLimit of the sessions tried: 0 stands for unset (never set, or
\* reset by saveContextLimit); the limit of an imported session is not checked,
\* so it may be negative
ContextLimits == {0 - 1, 0, 20, 25, 26}
Modes == {"rolling", "compaction", "halting"}
\* the timestamp of the first message of the sessions tried: some minutes before
\* midnight, so that the conversation spans two days
StartTimes == {85800000}
\* a session is created before its first message, and the calls modelled come
\* after its last
SessionStart == 85000000
SessionEnd == 90000000
\* the conversation lengths tried: around the sizes the modes decide on
ConvLengths ==
    {0, 1, RecentCount, RecentCount + 1, RollingWindowSize, RollingWindowSize + 1, MaxConv}

\* the i-th conversation message of a session started at t0: user and assistant
\* in turn, a minute and a second apart
ConversationMessage(i, t0) ==
    [Message(100 + i, IF i % 2 = 1 THEN "user" ELSE "assistant",
             IF i % 2 = 1 THEN "hello" ELSE "hi there")
     EXCEPT !.timestamp = t0 + i * 61000]

\* a session with nSys system messages and len conversation messages: the
\* system prompt first, a second system message after the conversation
SessionMessages(nSys, len, t0) ==
    (IF nSys >= 1 THEN <<[Message(1, "system", "You are Delver") EXCEPT !.timestamp = t0]>>
     ELSE <<>>)
    \o [i \in 1..len |-> ConversationMessage(i, t0)]
    \o [k \in 1..(IF nSys >= 2 THEN nSys - 1 ELSE 0) |->
           [Message(1 + k, "system", "note") EXCEPT !.timestamp = t0]]

\* the variables of the chat loop, which the ContextManager does not touch
loopVars ==
    <<permissions, pc, round, draft, think, output, asstIdx, toolIdx, openStreams, aborted,
      abortedAt, runResult, nextId, log, initMessages, roundStart, ctxFailedRound>>

\* the session was last touched when its last message was stored, or when it
\* was created
LatestTimestamp(ms) == IF ms = <<>> THEN SessionStart ELSE ms[Len(ms)].timestamp

CtxInit ==
    /\ \E nSys \in 0..MaxSystems, len \in ConvLengths, t0 \in StartTimes :
          messages = SessionMessages(nSys, len, t0)
    /\ contextMode \in Modes
    /\ contextLimit \in ContextLimits
    /\ updatedAt = LatestTimestamp(messages)
    /\ permissions = DefaultPermissions
    /\ tools = ViewTools
    /\ tokenCache = [k \in {} |-> 0]
    /\ active = NoActive
    /\ contextState = NoContextState
    /\ enabled = NoEnabled
    /\ ViewAtRest
    /\ pc = "idle"
    /\ round = 0
    /\ draft = Message(0, "assistant", "")
    /\ think = FALSE
    /\ output = 0
    /\ asstIdx = 0
    /\ toolIdx = 0
    /\ openStreams = 0
    /\ aborted = FALSE
    /\ abortedAt = ""
    /\ runResult = "pending"
    /\ nextId = 3
    /\ log = <<>>
    /\ initMessages = <<>>
    /\ roundStart = <<>>
    /\ ctxFailedRound = 0

\* Date.now() at a call of the ContextManager: later than every stored
\* timestamp, and time passes between the calls
Now == SessionEnd + 1 + active.n + contextState.n

\* a faulty variant that writes the metadata block into the stored content of
\* the user messages it returns
GetActiveMessagesInPlace ==
    /\ active.n < MaxCalls
    /\ \E sel \in {SelectActive(messages, contextMode, contextLimit, ModelMaxTokens,
                                tokenCache, Now)} :
          /\ tokenCache' = sel.cache
          /\ active' = [n |-> active.n + 1, mode |-> contextMode, threw |-> sel.threw,
                        error |-> sel.error, messages |-> sel.messages]
          /\ messages' =
                [k \in 1..Len(messages) |->
                    IF /\ messages[k].role = "user"
                       /\ \E i \in 1..Len(sel.messages) : sel.messages[i].id = messages[k].id
                    THEN FormatUserMessageWithMetadata(messages[k])
                    ELSE messages[k]]
    /\ UNCHANGED <<contextMode, contextLimit, updatedAt, contextState, enabled, tools, viewVars, loopVars>>

\* contextManager.getActiveMessages(session, maxTokens)
GetActiveMessages ==
    /\ active.n < MaxCalls
    /\ LET sel == SelectActive(messages, contextMode, contextLimit, ModelMaxTokens,
                               tokenCache, Now)
       IN  /\ tokenCache' = sel.cache
           /\ active' = [n |-> active.n + 1, mode |-> contextMode, threw |-> sel.threw, error |-> sel.error,
                         messages |-> sel.messages]
    /\ UNCHANGED <<messages, contextMode, contextLimit, updatedAt, contextState, enabled, tools, viewVars, loopVars>>

\* getContextState: what it gives and the estimator's cache afterwards; an
\* error thrown by getActiveMessages is not caught
ContextStateOf(ms, sel, budget) ==
    LET e == EstimateMessages(sel.messages, sel.cache)
    IN  IF sel.threw
        THEN [threw |-> TRUE, error |-> sel.error, messages |-> <<>>,
              activeMessages |-> <<>>, currentTokens |-> 0, maxTokens |-> 0,
              cache |-> sel.cache]
        ELSE [threw |-> FALSE, error |-> "", messages |-> ms,
              activeMessages |-> sel.messages, currentTokens |-> e.tokens,
              maxTokens |-> budget, cache |-> e.cache]

\* what ChatView.updateContextDisplay gets for a session with these messages,
\* mode and limit from an estimator with this cache:
\* getContextState(session, session.contextLimit || modelContextLength)
ContextDisplay(ms, mode, limit, cache) ==
    LET maxTokens == ResolveBudget(limit, ModelMaxTokens)
    IN  ContextStateOf(ms, SelectActive(ms, mode, limit, maxTokens, cache, Now),
                       ResolveBudget(limit, maxTokens))

\* the record kept of a getContextState call
ContextStateRecord(st, mode) ==
    [n |-> contextState.n + 1, mode |-> mode, threw |-> st.threw,
     error |-> st.error, messages |-> st.messages,
     activeMessages |-> st.activeMessages,
     currentTokens |-> st.currentTokens, maxTokens |-> st.maxTokens]

UpdateContextDisplay(ms, mode, limit) ==
    \E st \in {ContextDisplay(ms, mode, limit, tokenCache)} :
       /\ tokenCache' = st.cache
       /\ contextState' = ContextStateRecord(st, mode)

\* the context display is refreshed on an unchanged session
GetContextState ==
    /\ contextState.n < MaxCalls
    /\ UpdateContextDisplay(messages, contextMode, contextLimit)
    /\ UNCHANGED <<messages, contextMode, contextLimit, updatedAt, active, enabled, tools, viewVars, loopVars>>

CtxNext ==
    \/ GetActiveMessages
    \/ GetContextState

CtxSpec == CtxInit /\ [][CtxNext]_vars

(***************************************************************************)
(* ChatView's handlers on an idle session, and the TokenEstimator's        *)
(* clearCache.  regenerateLastMessage and continueGeneration end by        *)
(* calling runChatLoop, which enters ChatLoop.run.                         *)
(***************************************************************************)
\* the limits, and the texts typed into the edit boxes, tried
ViewLimits == {0, 20}
EditTexts == {"hello world"}
ThinkingTexts == {"", "plan b"}
ViewLengths == {1, 2, 3}
Max(S) == CHOOSE x \in S : \A y \in S : y <= x

\* a session whose assistant messages carry thinking
ViewSessionMessages(nSys, len, t0) ==
    [k \in 1..Len(SessionMessages(nSys, len, t0)) |->
        IF SessionMessages(nSys, len, t0)[k].role = "assistant"
        THEN [SessionMessages(nSys, len, t0)[k] EXCEPT !.thinking = Some("plan")]
        ELSE SessionMessages(nSys, len, t0)[k]]

ViewInit ==
    /\ \E nSys \in 0..1, len \in ViewLengths, t0 \in StartTimes :
          messages = ViewSessionMessages(nSys, len, t0)
    /\ contextMode \in Modes
    /\ contextLimit \in ViewLimits
    /\ updatedAt = LatestTimestamp(messages)
    /\ permissions = DefaultPermissions
    /\ tools = ViewTools
    /\ tokenCache = [k \in {} |-> 0]
    /\ active = NoActive
    /\ contextState = NoContextState
    /\ enabled = NoEnabled
    /\ ViewAtRest
    /\ pc = "idle"
    /\ round = 0
    /\ draft = Message(0, "assistant", "")
    /\ think = FALSE
    /\ output = 0
    /\ asstIdx = 0
    /\ toolIdx = 0
    /\ openStreams = 0
    /\ aborted = FALSE
    /\ abortedAt = ""
    /\ runResult = "pending"
    /\ nextId = 200
    /\ log = <<>>
    /\ initMessages = <<>>
    /\ roundStart = <<>>
    /\ ctxFailedRound = 0

\* no generation is in progress and the display can be refreshed once more
ViewIdle == pc = "idle" /\ contextState.n < MaxCalls

\* saveMessageEdit: the new content and a new timestamp are written into the
\* stored message, updatedAt is set, the display is refreshed
SaveMessageEdit(k, newContent) ==
    /\ ViewIdle
    /\ k \in 1..Len(messages)
    /\ messages[k].role \in {"user", "assistant"}
    /\ messages[k].content # newContent
    /\ \E ms \in {[messages EXCEPT ![k].content = newContent, ![k].timestamp = Now]} :
          /\ messages' = ms
          /\ UpdateContextDisplay(ms, contextMode, contextLimit)
    /\ updatedAt' = Now
    /\ UNCHANGED <<contextMode, contextLimit, active, enabled, tools, viewVars, loopVars>>

\* editThinking's saveEdit: the new thinking is written into the stored
\* message, whose timestamp stays, updatedAt is set, the display is refreshed
EditThinking(k, text) ==
    /\ ViewIdle
    /\ k \in 1..Len(messages)
    /\ Truthy(messages[k].thinking)
    /\ messages[k].thinking # Some(text)
    /\ \E ms \in {[messages EXCEPT ![k].thinking = Some(text)]} :
          /\ messages' = ms
          /\ UpdateContextDisplay(ms, contextMode, contextLimit)
    /\ updatedAt' = Now
    /\ UNCHANGED <<contextMode, contextLimit, active, enabled, tools, viewVars, loopVars>>

\* the user picks another context mode in the toolbar: the mode and updatedAt
\* are set, the display is refreshed
SetContextMode(mode) ==
    /\ ViewIdle
    /\ mode # contextMode
    /\ contextMode' = mode
    /\ updatedAt' = Now
    /\ UpdateContextDisplay(messages, mode, contextLimit)
    /\ UNCHANGED <<messages, contextLimit, active, enabled, tools, viewVars, loopVars>>

\* ContextManager.clearCache
ClearCache ==
    /\ DOMAIN tokenCache # {}
    /\ tokenCache' = [k \in {} |-> 0]
    /\ UNCHANGED <<messages, contextMode, contextLimit, updatedAt, active, contextState, enabled,
                   tools, viewVars, loopVars>>

\* runChatLoop after the display was refreshed with result st on the messages
\* ms: when the refresh threw, the handler ends there; otherwise ChatLoop.run
\* is entered
RunChatLoopAfter(ms, st) ==
    /\ contextState' = ContextStateRecord(st, contextMode)
    /\ IF st.threw
       THEN /\ tokenCache' = st.cache
            /\ UNCHANGED <<active, pc, round, roundStart, ctxFailedRound, openStreams,
                           runResult, log, initMessages>>
       ELSE /\ EnterRunOn(FALSE, ms, st.cache)
            /\ initMessages' = ms

\* regenerateLastMessage with an assistant message last: the message is
\* removed, the session saved, the display refreshed and the loop run; with a
\* user message last the loop is run on the session as it is
RegenerateLastMessage ==
    /\ ViewIdle
    /\ messages # <<>>
    /\ messages[Len(messages)].role \in {"assistant", "user"}
    /\ IF messages[Len(messages)].role = "assistant"
       THEN \E ms \in {SubSeq(messages, 1, Len(messages) - 1)} :
               /\ messages' = ms
               /\ \E st \in {ContextDisplay(ms, contextMode, contextLimit, tokenCache)} :
                     RunChatLoopAfter(ms, st)
       ELSE /\ EnterRun(FALSE)
            /\ initMessages' = messages
            /\ UNCHANGED messages
    /\ UNCHANGED <<contextMode, contextLimit, updatedAt, think, output, permissions, tools, viewVars, draft,
                   asstIdx, toolIdx, aborted, abortedAt, nextId>>

\* the message continueGeneration adds
ContinueMessage(id, now) == [Message(id, "user", "(continue)") EXCEPT !.timestamp = now]

\* whether continueGeneration adds it: the last message is an assistant
\* message without tool calls whose content is not blank
ShouldAddContinue(ms) ==
    /\ ms # <<>>
    /\ ms[Len(ms)].role = "assistant"
    /\ ~IsSome(ms[Len(ms)].tool_calls)
    /\ ms[Len(ms)].content \notin {"", " "}

\* ChatView.continueGeneration: '(continue)' is added when it applies, the
\* session saved, the display refreshed, and the loop run
ChatViewContinueGeneration ==
    /\ ViewIdle
    /\ IF ShouldAddContinue(messages)
       THEN \E ms \in {Append(messages, ContinueMessage(nextId, Now))} :
               /\ messages' = ms
               /\ nextId' = nextId + 1
               /\ \E st \in {ContextDisplay(ms, contextMode, contextLimit, tokenCache)} :
                     RunChatLoopAfter(ms, st)
       ELSE /\ EnterRun(FALSE)
            /\ initMessages' = messages
            /\ UNCHANGED <<messages, nextId>>
    /\ UNCHANGED <<contextMode, contextLimit, updatedAt, think, output, permissions, tools, viewVars, draft,
                   asstIdx, toolIdx, aborted, abortedAt>>

ViewNext ==
    \/ \E k \in 1..(MaxSystems + Max(ViewLengths)), t \in EditTexts : SaveMessageEdit(k, t)
    \/ \E k \in 1..(MaxSystems + Max(ViewLengths)), t \in ThinkingTexts : EditThinking(k, t)
    \/ \E mode \in Modes : SetContextMode(mode)
    \/ ClearCache
    \/ RegenerateLastMessage
    \/ ChatViewContinueGeneration
    \/ GetActiveMessages
    \/ GetContextState

ViewSpec == ViewInit /\ [][ViewNext]_vars

(***************************************************************************)
(* The command handlers of one ChatView, step by step                      *)
(***************************************************************************)
\* Each handler is split where it awaits: a session save, a refresh of the
\* context display, ChatLoop.run. The chat loop itself is reduced to what it
\* does to the view through its callbacks.
\* the positions of a handler that is inside runChatLoop, from its first
\* statement to the end of its finally block
RunPcs == {"run", "partialSave", "partialDisplay"}

\* what the handlers of the view leave alone
turnFrame ==
    <<contextMode, contextLimit, tokenCache, active, contextState, enabled, tools, permissions,
      pc, round, draft, think, output, asstIdx, toolIdx, openStreams, aborted, abortedAt,
      runResult, log, initMessages, roundStart, ctxFailedRound>>

TurnInit ==
    /\ messages = <<Message(1, "user", "hello"), Message(2, "assistant", "hi there")>>
    /\ contextMode = "rolling" /\ contextLimit = 0
    /\ updatedAt = 2
    /\ permissions = DefaultPermissions
    /\ tools = ViewTools
    /\ tokenCache = [k \in {} |-> 0]
    /\ active = NoActive
    /\ contextState = NoContextState
    /\ enabled = NoEnabled
    /\ ViewAtRest
    /\ pc = "idle"
    /\ round = 0
    /\ draft = Message(0, "assistant", "")
    /\ think = FALSE
    /\ output = 0
    /\ asstIdx = 0
    /\ toolIdx = 0
    /\ openStreams = 0
    /\ aborted = FALSE
    /\ abortedAt = 0
    /\ runResult = "none"
    /\ nextId = 3
    /\ log = <<>>
    /\ initMessages = <<>>
    /\ roundStart = 0
    /\ ctxFailedRound = 0

\* the handlers that were not started, and the one the next command starts
FreeTasks == {t \in 1..MaxCommands : tasks[t].pc = "none"}
NextTask == CHOOSE t \in FreeTasks : \A u \in FreeTasks : t <= u

\* isGenerationInProgress: a controller that is set and not aborted, or a
\* loading indicator in the container
IsGenerationInProgress ==
    \/ abortController # 0 /\ abortController \notin abortedSignals
    \/ loading # <<>>

\* renderMessages empties the container and puts back the first loading
\* indicator it had
RenderMessages(indicators) == IF indicators = <<>> THEN <<>> ELSE <<Head(indicators)>>

\* the indicators without the one of run t
WithoutIndicator(indicators, t) == SelectSeq(indicators, LAMBDA x : x # t)

\* onSaveSession is DelverPlugin.saveSession: the session is stored under its
\* id before the settings are written
SaveSession(stored) == stored \cup {SessionId}

\* the first statements of runChatLoop, up to the await of ChatLoop.run: a new
\* controller replaces the view's, the input is disabled and a loading
\* indicator added
RunChatLoopStarts(t, kind) ==
    /\ abortController' = t
    /\ inputDisabled' = TRUE
    /\ loading' = Append(loading, t)
    /\ tasks' = [tasks EXCEPT ![t] = [kind |-> kind, pc |-> "run", signal |-> t,
                                      wasCancelled |-> FALSE, accumulated |-> FALSE]]

\* the end of the finally block of runChatLoop
ResetInput(t) ==
    /\ inputDisabled' = FALSE
    /\ abortController' = 0
    /\ tasks' = [tasks EXCEPT ![t].pc = "ended"]

\* the user types into the input
TypeText ==
    /\ closing = "open"
    /\ ~inputDisabled
    /\ inputText = ""
    /\ inputText' = "hi"
    /\ UNCHANGED <<messages, updatedAt, nextId, abortController, abortedSignals, loading,
                   inputDisabled, tasks, closing, openSessions, chatSessions, turnFrame>>

\* Enter in the input: handleSendMessage up to its await of the session save
HandleSendMessage ==
    /\ closing = "open"
    /\ ~inputDisabled
    /\ inputText # ""
    /\ FreeTasks # {}
    /\ messages' = Append(messages, [Message(nextId, "user", inputText) EXCEPT !.timestamp = Now])
    /\ nextId' = nextId + 1
    /\ updatedAt' = Now
    /\ chatSessions' = SaveSession(chatSessions)
    /\ tasks' = [tasks EXCEPT ![NextTask] = [NoTask EXCEPT !.kind = "send", !.pc = "save"]]
    /\ UNCHANGED <<abortController, abortedSignals, loading, inputDisabled, inputText, closing,
                   openSessions, turnFrame>>

\* ChatView.regenerateLastMessage up to its first await
RegenerateCommand ==
    /\ closing = "open"
    /\ ~IsGenerationInProgress
    /\ messages # <<>>
    /\ messages[Len(messages)].role \in {"assistant", "user"}
    /\ FreeTasks # {}
    /\ IF messages[Len(messages)].role = "assistant"
       THEN /\ messages' = SubSeq(messages, 1, Len(messages) - 1)
            /\ chatSessions' = SaveSession(chatSessions)
            /\ tasks' = [tasks EXCEPT ![NextTask] =
                            [NoTask EXCEPT !.kind = "regenerate", !.pc = "save"]]
            /\ UNCHANGED <<abortController, inputDisabled, loading>>
       ELSE /\ RunChatLoopStarts(NextTask, "regenerate")
            /\ UNCHANGED <<messages, chatSessions>>
    /\ UNCHANGED <<updatedAt, nextId, abortedSignals, inputText, closing, openSessions,
                   turnFrame>>

\* ChatView.continueGeneration up to its first await
ContinueCommand ==
    /\ closing = "open"
    /\ ~IsGenerationInProgress
    /\ FreeTasks # {}
    /\ IF ShouldAddContinue(messages)
       THEN /\ messages' = Append(messages, ContinueMessage(nextId, Now))
            /\ nextId' = nextId + 1
            /\ updatedAt' = Now
            /\ chatSessions' = SaveSession(chatSessions)
            /\ tasks' = [tasks EXCEPT ![NextTask] =
                            [NoTask EXCEPT !.kind = "continue", !.pc = "save"]]
            /\ UNCHANGED <<abortController, inputDisabled, loading>>
       ELSE /\ RunChatLoopStarts(NextTask, "continue")
            /\ UNCHANGED <<messages, nextId, updatedAt, chatSessions>>
    /\ UNCHANGED <<abortedSignals, inputText, closing, openSessions, turnFrame>>

\* the session save a handler awaits before runChatLoop completes: a send
\* clears the input, and the messages are rendered
SessionSaved(t) ==
    /\ tasks[t].pc = "save"
    /\ inputText' = IF tasks[t].kind = "send" THEN "" ELSE inputText
    /\ loading' = RenderMessages(loading)
    /\ tasks' = [tasks EXCEPT ![t].pc = "display"]
    /\ UNCHANGED <<messages, updatedAt, nextId, abortController, abortedSignals, inputDisabled,
                   closing, openSessions, chatSessions, turnFrame>>

\* updateContextDisplay returns and runChatLoop is entered, or it throws and
\* the handler ends
ContextDisplayed(t, ok) ==
    /\ tasks[t].pc = "display"
    /\ IF ok
       THEN RunChatLoopStarts(t, tasks[t].kind)
       ELSE /\ tasks' = [tasks EXCEPT ![t].pc = "ended"]
            /\ UNCHANGED <<abortController, inputDisabled, loading>>
    /\ UNCHANGED <<messages, updatedAt, nextId, abortedSignals, inputText, closing,
                   openSessions, chatSessions, turnFrame>>

\* the ESC handler of the view
Escape ==
    /\ closing = "open"
    /\ abortController # 0
    /\ abortController \notin abortedSignals
    /\ abortedSignals' = abortedSignals \cup {abortController}
    /\ UNCHANGED <<messages, updatedAt, nextId, abortController, loading, inputDisabled,
                   inputText, tasks, closing, openSessions, chatSessions, turnFrame>>

\* the onChunk callback of run t on a content or thinking chunk; ChatLoop
\* forwards no chunk once its signal is aborted
OnChunkReceived(t) ==
    /\ tasks[t].pc = "run"
    /\ tasks[t].signal \notin abortedSignals
    /\ ~tasks[t].accumulated
    /\ tasks' = [tasks EXCEPT ![t].accumulated = TRUE]
    /\ UNCHANGED <<messages, updatedAt, nextId, abortController, abortedSignals, loading,
                   inputDisabled, inputText, closing, openSessions, chatSessions, turnFrame>>

\* the onToolCallsComplete callback of run t up to its await of the save
OnToolCallsComplete(t) ==
    /\ tasks[t].pc = "run"
    /\ tasks[t].accumulated
    /\ tasks' = [tasks EXCEPT ![t].accumulated = FALSE]
    /\ updatedAt' = Now
    /\ chatSessions' = SaveSession(chatSessions)
    /\ UNCHANGED <<messages, nextId, abortController, abortedSignals, loading, inputDisabled,
                   inputText, closing, openSessions, turnFrame>>

\* ChatLoop.run of run t ends with onComplete: the indicator is removed, the
\* message stored and saved, and the finally block resets the input
RunCompletes(t) ==
    /\ tasks[t].pc = "run"
    /\ loading' = WithoutIndicator(loading, t)
    /\ messages' = Append(messages, Message(nextId, "assistant", "answer"))
    /\ nextId' = nextId + 1
    /\ updatedAt' = Now
    /\ chatSessions' = SaveSession(chatSessions)
    /\ ResetInput(t)
    /\ UNCHANGED <<abortedSignals, inputText, closing, openSessions, turnFrame>>

\* ChatLoop.run of run t ends with onError; cancelled tells whether the error
\* is 'Generation cancelled'. The finally block stores what was accumulated
\* of a cancelled turn and awaits the save, or resets the input.
RunFails(t, cancelled) ==
    /\ tasks[t].pc = "run"
    /\ cancelled => tasks[t].signal \in abortedSignals
    /\ loading' = WithoutIndicator(loading, t)
    /\ \E wasCancelled \in {cancelled \/ (abortController # 0 /\ abortController \in abortedSignals)} :
          IF wasCancelled /\ tasks[t].accumulated
          THEN /\ messages' = Append(messages, [Message(nextId, "assistant", "partial")
                                                   EXCEPT !.timestamp = Now,
                                                          !.isStreaming = Some(FALSE)])
               /\ nextId' = nextId + 1
               /\ updatedAt' = Now
               /\ chatSessions' = SaveSession(chatSessions)
               /\ tasks' = [tasks EXCEPT ![t].pc = "partialSave", ![t].wasCancelled = TRUE]
               /\ UNCHANGED <<abortController, inputDisabled>>
          ELSE /\ ResetInput(t)
               /\ UNCHANGED <<messages, nextId, updatedAt, chatSessions>>
    /\ UNCHANGED <<abortedSignals, inputText, closing, openSessions, turnFrame>>

\* ChatLoop.run of run t rejects without a callback: the finally block removes
\* the indicator and resets the input
RunRejects(t) ==
    /\ tasks[t].pc = "run"
    /\ loading' = WithoutIndicator(loading, t)
    /\ ResetInput(t)
    /\ UNCHANGED <<messages, updatedAt, nextId, abortedSignals, inputText, closing,
                   openSessions, chatSessions, turnFrame>>

\* the save of the partial message completes and the messages are rendered
PartialSaved(t) ==
    /\ tasks[t].pc = "partialSave"
    /\ loading' = RenderMessages(loading)
    /\ tasks' = [tasks EXCEPT ![t].pc = "partialDisplay"]
    /\ UNCHANGED <<messages, updatedAt, nextId, abortController, abortedSignals, inputDisabled,
                   inputText, closing, openSessions, chatSessions, turnFrame>>

\* the refresh after the partial message returns and the input is reset, or
\* it throws out of the finally block
PartialDisplayed(t, ok) ==
    /\ tasks[t].pc = "partialDisplay"
    /\ IF ok
       THEN ResetInput(t)
       ELSE /\ tasks' = [tasks EXCEPT ![t].pc = "ended"]
            /\ UNCHANGED <<abortController, inputDisabled>>
    /\ UNCHANGED <<messages, updatedAt, nextId, abortedSignals, loading, inputText, closing,
                   openSessions, chatSessions, turnFrame>>

\* DelverPlugin.updateOpenSessions(id, 'remove')
RemoveOpenSession(open) == open \ {SessionId}

\* ChatView.onClose up to its first await: the controller is aborted, the ESC
\* handler removed and the session taken out of the open sessions
OnCloseStarts ==
    /\ closing = "open"
    /\ abortedSignals' = IF abortController # 0 THEN abortedSignals \cup {abortController}
                                                 ELSE abortedSignals
    /\ openSessions' = RemoveOpenSession(openSessions)
    /\ closing' = "removing"
    /\ UNCHANGED <<messages, updatedAt, nextId, abortController, loading, inputDisabled,
                   inputText, tasks, chatSessions, turnFrame>>

\* onClose after the open sessions were written: the session's entry is
\* deleted from settings.chatSessions and onSaveSession is called with the
\* session
OnCloseDeletes ==
    /\ closing = "removing"
    /\ chatSessions' = SaveSession(chatSessions \ {SessionId})
    /\ closing' = "saving"
    /\ UNCHANGED <<messages, updatedAt, nextId, abortController, abortedSignals, loading,
                   inputDisabled, inputText, tasks, openSessions, turnFrame>>

\* onClose after that save: the content is emptied and onClose returns
OnCloseEnds ==
    /\ closing = "saving"
    /\ closing' = "closed"
    /\ loading' = <<>>
    /\ UNCHANGED <<messages, updatedAt, nextId, abortController, abortedSignals, inputDisabled,
                   inputText, tasks, openSessions, chatSessions, turnFrame>>

TurnNext ==
    \/ TypeText
    \/ HandleSendMessage
    \/ RegenerateCommand
    \/ ContinueCommand
    \/ Escape
    \/ \E t \in 1..MaxCommands : SessionSaved(t)
    \/ \E t \in 1..MaxCommands, ok \in BOOLEAN : ContextDisplayed(t, ok)
    \/ \E t \in 1..MaxCommands : OnChunkReceived(t)
    \/ \E t \in 1..MaxCommands : OnToolCallsComplete(t)
    \/ \E t \in 1..MaxCommands : RunCompletes(t)
    \/ \E t \in 1..MaxCommands, cancelled \in BOOLEAN : RunFails(t, cancelled)
    \/ \E t \in 1..MaxCommands : RunRejects(t)
    \/ \E t \in 1..MaxCommands : PartialSaved(t)
    \/ \E t \in 1..MaxCommands, ok \in BOOLEAN : PartialDisplayed(t, ok)
    \/ OnCloseStarts
    \/ OnCloseDeletes
    \/ OnCloseEnds

TurnSpec == TurnInit /\ [][TurnNext]_vars

(***************************************************************************)
(* Properties                                                              *)
(***************************************************************************)
\* the positions of the log where ev was called, and how many there are
Positions(ev) == {i \in 1..Len(log) : log[i].ev = ev}
Count(ev) == Cardinality(Positions(ev))

\* whether s is a prefix of t
IsPrefix(s, t) == Len(s) <= Len(t) /\ SubSeq(t, 1, Len(s)) = s

\* C1: when the top-level run has ended, onComplete and onError were called
\* exactly once in total, over all rounds of the turn.
C1_ExactlyOneOutcome ==
    pc = "done" => Count("onComplete") + Count("onError") = 1

\* C2: when the loop over the tool calls [c1..cn] of an assistant message is
\* over, exactly n tool-role messages follow that message, the i-th with
\* tool_name = ci's name and content = ci.result || ci.error || "No result".
C2_OneToolMessagePerCall ==
    pc = "notify" =>
        /\ Len(messages) = asstIdx + Len(CurrentCalls)
        /\ \A i \in 1..Len(CurrentCalls) :
              asstIdx + i <= Len(messages) =>
                /\ messages[asstIdx + i].role = "tool"
                /\ messages[asstIdx + i].tool_name = Some(CurrentCalls[i].name)
                /\ messages[asstIdx + i].content = ToolContent(CurrentCalls[i])

\* the tool calls of the session: <<k, j>> is call j of message k
CallsOfSession ==
    {kj \in (1..Len(messages)) \X (1..MaxOutput) :
        /\ IsSome(messages[kj[1]].tool_calls)
        /\ kj[2] <= Len(messages[kj[1]].tool_calls[1])}
CallAt(kj) == messages[kj[1]].tool_calls[1][kj[2]]

\* the error texts of a call refused without a prompt
RefusedByPolicy(c) ==
    c.error \in {Some("Tool not found: " \o c.name), Some("Tool is disabled: " \o c.name),
                 Some("Tool is denied: " \o c.name)}

\* C3: execute is called only for a registered tool whose policy, read when the
\* call was processed, was allow, or was ask with the permission callback having
\* just returned true for that call; the permission callback is called only
\* under policy ask; and a call refused as unknown, disabled or denied has
\* neither a permission prompt nor an execute.
C3_ExecuteOnlyWhenPermitted ==
    /\ \A i \in Positions("execute") :
          /\ HasTool(log[i].arg)
          /\ \/ log[i].policy = "allow"
             \/ /\ log[i].policy = "ask"
                /\ i > 2
                /\ log[i - 1].ev = "returned" /\ log[i - 1].arg = "true"
                /\ log[i - 2].ev = "onToolPermission"
                /\ <<log[i - 2].msg, log[i - 2].idx>> = <<log[i].msg, log[i].idx>>
    /\ \A i \in Positions("onToolPermission") :
          HasTool(log[i].arg) /\ log[i].policy = "ask"
    /\ \A kj \in CallsOfSession :
          RefusedByPolicy(CallAt(kj)) =>
              ~\E i \in Positions("execute") \cup Positions("onToolPermission") :
                  <<log[i].msg, log[i].idx>> = kj

\* a finished turn in which one call was refused by policy, without prompt or
\* execute, and another was executed after the user approved it
C3_Witness ==
    /\ pc = "done"
    /\ \E kj \in CallsOfSession : RefusedByPolicy(CallAt(kj))
    /\ \E i \in Positions("execute") : log[i].policy = "ask"

\* C4: when the signal was raised while the stream was consumed, the turn ends
\* with exactly one onError, with the text 'Generation cancelled', without
\* onComplete, no onChunk is called with the signal raised, and no round or
\* stream is started with the signal raised.
C4_CancelledMidStream ==
    pc = "done" /\ abortedAt = "stream" =>
        /\ Count("onError") = 1
        /\ Count("onComplete") = 0
        /\ \A i \in Positions("onError") : log[i].arg = "Generation cancelled"
        /\ \A i \in Positions("onChunk") \cup Positions("run") \cup Positions("generate") :
              ~log[i].aborted

\* C5: when the permission prompt or the execute of call i is pending, the
\* tool-role messages of calls 1..i-1 of the same assistant message, and only
\* they, follow that message, in the order of the calls.
C5_SequentialToolCalls ==
    pc \in {"perm", "exec"} =>
        /\ Len(messages) = asstIdx + toolIdx - 1
        /\ \A i \in 1..(toolIdx - 1) :
              asstIdx + i <= Len(messages) =>
                /\ messages[asstIdx + i].role = "tool"
                /\ messages[asstIdx + i].tool_name = Some(CurrentCalls[i].name)

\* C6: when the signal was raised while the loop waited for the permission
\* callback, no tool is executed and no further prompt is shown with the
\* signal raised, and the turn ends with the cancellation error only.
C6_PermissionWaitCancellable ==
    abortedAt = "perm" =>
        /\ \A i \in Positions("execute") \cup Positions("onToolPermission") :
              ~log[i].aborted
        /\ pc = "done" =>
              /\ Count("onComplete") = 0
              /\ Count("onError") = 1
              /\ \A i \in Positions("onError") : log[i].arg = "Generation cancelled"

\* the turn ended with an onError that came from the stream: the cancellation
\* error or an error chunk
EndedByStreamError ==
    /\ pc = "done"
    /\ ctxFailedRound = 0
    /\ log # <<>>
    /\ log[Len(log)].ev = "onError"

\* C7: when a round ended by cancellation or by an error chunk, session.messages
\* is what it was when that round started, which keeps the initial messages
\* and what earlier rounds appended, and the draft of the round is not in it.
C7_DraftNotAppended ==
    EndedByStreamError =>
        /\ messages = roundStart
        /\ IsPrefix(initMessages, messages)
        /\ \A i \in 1..Len(messages) : messages[i].id # draft.id

\* a second round cancelled after it streamed content, earlier rounds having
\* appended messages
C7_Witness ==
    /\ EndedByStreamError
    /\ log[Len(log)].arg = "Generation cancelled"
    /\ round = 2
    /\ draft.content # ""
    /\ Len(messages) > Len(initMessages)

\* C8: session.messages as it was when run was called is a prefix of
\* session.messages, and every message after that prefix has role assistant or
\* tool.
C8_InitialMessagesArePrefix ==
    /\ IsPrefix(initMessages, messages)
    /\ \A i \in (Len(initMessages) + 1)..Len(messages) :
          messages[i].role \in {"assistant", "tool"}

\* a finished turn that appended an assistant message with tool calls, a tool
\* message and a final assistant message
C8_Witness ==
    /\ pc = "done"
    /\ log[Len(log)].ev = "onComplete"
    /\ Len(messages) >= Len(initMessages) + 3
    /\ \E i \in 1..Len(messages) : messages[i].role = "tool"

\* the loop over the tool calls of message k is over
PhaseOver(k) == k < asstIdx \/ pc \in {"notify", "think", "stream", "done"}

\* the step in which the execute of the current call throws
ExecuteFails ==
    /\ pc = "exec"
    /\ Len(log') > Len(log)
    /\ log'[Len(log) + 1].ev = "threw"

\* what C9 says of the step in which execute throws
C9_Step ==
    ExecuteFails =>
        LET c == messages'[asstIdx].tool_calls[1][toolIdx]
            m == messages'[Len(messages')]
            text == OrElse(Some(log'[Len(log) + 1].arg), Some("Tool execution failed"))
        IN  /\ c.error = text
            /\ messages' = Push(SetCall(messages, asstIdx, toolIdx, c), m)
            /\ m.role = "tool" /\ m.tool_name = Some(c.name) /\ m.content = text[1]
            /\ pc' = "tools" /\ toolIdx' = toolIdx + 1 /\ asstIdx' = asstIdx
            /\ Len(log') = Len(log) + 1
            /\ runResult' = runResult

\* what C9 says of the rest of the turn after a failed execute
C9_State ==
    \A e \in Positions("threw") :
        LET k == log[e].msg
            calls == messages[k].tool_calls[1]
        IN  /\ calls[log[e].idx].error = OrElse(Some(log[e].arg), Some("Tool execution failed"))
            /\ PhaseOver(k) =>
                  /\ \A j \in 1..Len(calls) : IsSome(calls[j].permissionStatus)
                  /\ \E t \in Positions("onToolCallsComplete") :
                        /\ t > e
                        /\ log[t].msg = k
                        /\ \A i \in e..t : log[i].ev # "onError"
                        /\ pc # "notify" => t < Len(log) /\ log[t + 1].ev = "run"

\* C9: when execute throws, the call's error field takes the failure, a
\* tool-role message with that text is appended, the loop goes on to the next
\* call, nothing is reported to onError, and once the calls of the message are
\* all processed, the next round is started.
C9_ToolFailureContained == []C9_State /\ [][C9_Step]_vars

\* a finished turn in which the first call's execute threw, the second call was
\* executed, and a next round ran
C9_Witness ==
    /\ pc = "done"
    /\ round = 2
    /\ Count("generate") = 2
    /\ Count("onError") = 0
    /\ \E t \in Positions("threw") :
          /\ log[t].idx = 1
          /\ \E e \in Positions("execute") : log[e].msg = log[t].msg /\ log[e].idx = 2

\* C10: when getActiveMessages throws in a round, first or later, onError is
\* called once with the text of the failure and is the last call of the turn,
\* the run resolves, and no provider stream is opened in that round.
C10_ContextLimitReported ==
    ctxFailedRound # 0 =>
        /\ runResult = "resolved"
        /\ Count("onError") = 1
        /\ log[Len(log)].ev = "onError"
        /\ Count("generate") < ctxFailedRound

(***************************************************************************)
(* Properties of the ContextManager, over CtxSpec.                         *)
(***************************************************************************)
\* the budget as documented: the session's limit when set and positive, the
\* provider's maximum otherwise
DocumentedBudget(limit) == IF limit > 0 THEN limit ELSE ModelMaxTokens

\* a step that is one call of getActiveMessages, of getContextState
IsGetActiveMessages == active'.n = active.n + 1
IsGetContextState == contextState'.n = contextState.n + 1

\* what getActiveMessages is to return when nothing is dropped: the system
\* prompt, then the conversation with its user messages carrying their metadata
WithSystemPrompt(ms, conv) ==
    (IF IsSome(SystemPrompt(ms)) THEN SystemPrompt(ms) ELSE <<>>) \o FormatUserMessages(conv)

\* C11: in halting mode getActiveMessages throws the context-limit error exactly
\* when the estimate of the conversation (non-system) messages is greater than
\* the budget, and then changes nothing of the session; otherwise it returns the
\* system message followed by all conversation messages in their order.
C11_HaltingExact ==
    [][(IsGetActiveMessages /\ contextMode = "halting") =>
          LET conv == ConversationMessages(messages)
              total == EstimateMessages(conv, tokenCache).tokens
              budget == DocumentedBudget(contextLimit)
          IN  /\ active'.threw <=> total > budget
              /\ messages' = messages
              /\ ~active'.threw => active'.messages = WithSystemPrompt(messages, conv)]_vars

(***************************************************************************)
(* Properties of the tool phase, over Spec.                                *)
(***************************************************************************)
\* a call refused by policy deny, or by the user answering the prompt
DeniedByPolicyOrUser(c) ==
    /\ c.permissionStatus = Some("denied")
    /\ c.error \in {Some("Tool is denied: " \o c.name), Some("Permission denied by user")}

InToolPhase == pc \in {"tools", "perm", "exec", "notify"}

\* C12: once the loop has moved past a call that ended denied by policy deny or
\* by the user's refusal, a tool-role message for that tool whose content is the
\* call's error text follows the assistant message.
C12_DenialReported ==
    InToolPhase =>
        \A i \in 1..(toolIdx - 1) :
            DeniedByPolicyOrUser(CurrentCalls[i]) =>
                \E k \in (asstIdx + 1)..Len(messages) :
                    /\ messages[k].role = "tool"
                    /\ messages[k].tool_name = Some(CurrentCalls[i].name)
                    /\ Some(messages[k].content) = CurrentCalls[i].error

\* C13: at most one provider stream is opened and not yet finished or closed;
\* the stream of a round that ended with a tool_call chunk is closed before the
\* stream of the next round is opened.
C13_OneOutstandingStream == openStreams <= 1

\* the assistant messages whose tool calls handleToolCalls loops over
ToolRounds == {k \in 1..Len(messages) : IsSome(messages[k].tool_calls)}
\* the tool round whose loop has not yet ended
LoopRunning(k) == k = asstIdx /\ pc \in {"tools", "perm", "exec"}
CompleteOf(k) == {p \in Positions("onToolCallsComplete") : log[p].msg = k}
\* what the loop logs about the calls of message k
CallEventsOf(k) ==
    {i \in 1..Len(log) :
        log[i].ev \in {"onToolPermission", "returned", "execute", "threw"} /\ log[i].msg = k}
\* the tool-role messages after the assistant message k, up to the next assistant message
ToolMessagesAfter(k) ==
    {j \in (k + 1)..Len(messages) :
        /\ messages[j].role = "tool"
        /\ \A l \in (k + 1)..j : messages[l].role = "tool"}

\* C14: in every tool round onToolCallsComplete is called exactly once: after
\* every call of the round has its outcome, its prompt and execute are over and
\* the tool messages of the executed calls are appended, and immediately before
\* the run of the next round, which alone asks the provider to generate.
C14_NotifiedOncePerToolRound ==
    /\ \A k \in ToolRounds :
          IF LoopRunning(k) THEN CompleteOf(k) = {} ELSE Cardinality(CompleteOf(k)) = 1
    /\ \A p \in Positions("onToolCallsComplete") :
          /\ log[p].msg \in ToolRounds
          /\ \A i \in CallEventsOf(log[p].msg) : i < p
          /\ \A j \in 1..Len(messages[log[p].msg].tool_calls[1]) :
                IsSome(messages[log[p].msg].tool_calls[1][j].permissionStatus)
          /\ Cardinality(ToolMessagesAfter(log[p].msg)) =
                Cardinality({j \in 1..Len(messages[log[p].msg].tool_calls[1]) :
                    messages[log[p].msg].tool_calls[1][j].permissionStatus = Some("approved")})
          /\ p < Len(log) => log[p + 1].ev = "run"
          /\ \A g \in Positions("generate") :
                g > p => \E r \in Positions("run") : p < r /\ r < g
    /\ \A r \in Positions("run") :
          r > 1 => log[r - 1].ev = "onToolCallsComplete"
    /\ pc = "notify" => log[Len(log)].ev = "onToolCallsComplete" /\ log[Len(log)].msg = asstIdx

\* a finished turn of three rounds: two tool rounds, the first with an executed
\* call, each notified once, and a last round that completed
C14_Witness ==
    /\ pc = "done"
    /\ Count("onToolCallsComplete") = 2
    /\ Count("generate") = 3
    /\ Count("onComplete") = 1
    /\ \E e \in Positions("execute") : \E p \in Positions("onToolCallsComplete") :
          log[e].msg = log[p].msg /\ e < p

\* the policy in force for a tool: what the settings say now, 'ask' when they
\* say nothing
PolicyInForce(name) == IF name \in DOMAIN permissions THEN permissions[name] ELSE "ask"

\* a step in which the loop takes up the next call of the round
TakesUpCall ==
    /\ pc = "tools"
    /\ toolIdx <= Len(CurrentCalls)
    /\ <<pc, toolIdx, messages>>' # <<pc, toolIdx, messages>>

\* C15: the policy that decides a tool call is the one in force when the call is
\* taken up, whatever it was when the turn started or when earlier calls of the
\* turn were processed: deny and disabled refuse the call with their texts, ask
\* opens the prompt, allow executes.
C15_PolicyReadPerCall ==
    [][(TakesUpCall /\ CurrentCall.name \in RegisteredTools) =>
          LET name == CurrentCall.name
              after == messages'[asstIdx].tool_calls[1][toolIdx]
          IN  CASE PolicyInForce(name) = "disabled" ->
                      /\ after.error = Some("Tool is disabled: " \o name)
                      /\ pc' = "tools"
                      /\ log' = log
                [] PolicyInForce(name) = "deny" ->
                      /\ after.error = Some("Tool is denied: " \o name)
                      /\ pc' = "tools"
                      /\ log' = log
                [] PolicyInForce(name) = "ask" ->
                      /\ pc' = "perm"
                      /\ log'[Len(log')].ev = "onToolPermission"
                [] PolicyInForce(name) = "allow" ->
                      /\ pc' = "exec"
                      /\ log'[Len(log')].ev = "execute"]_vars

\* the first call of a round was prompted for under policy ask, the policy was
\* changed while the prompt was pending, and the second call, of the same tool,
\* was refused by the new policy
C15_Witness ==
    /\ InToolPhase
    /\ toolIdx = 3
    /\ CurrentCalls[1].name = CurrentCalls[2].name
    /\ CurrentCalls[2].error = Some("Tool is denied: " \o CurrentCalls[2].name)
    /\ \E i \in Positions("onToolPermission") :
          log[i].msg = asstIdx /\ log[i].idx = 1 /\ log[i].policy = "ask"

\* the outcome fields of a call
Outcome(c) == <<c.permissionStatus, c.error>>

\* a step in which the permission callback settles
PromptSettles == pc = "perm" /\ pc' # "perm"

\* the calls whose processing is over: those of earlier rounds, those the loop
\* has passed, and all of them once the loop has ended
ProcessedCalls ==
    {kj \in CallsOfSession :
        \/ kj[1] # asstIdx
        \/ kj[2] < toolIdx
        \/ pc \notin {"tools", "perm", "exec"}}

C16_Step ==
    /\ TakesUpCall =>
          LET name == CurrentCall.name
              after == messages'[asstIdx].tool_calls[1][toolIdx]
          IN  CASE name \notin RegisteredTools ->
                      Outcome(after) = <<Some("denied"), Some("Tool not found: " \o name)>>
                [] name \in RegisteredTools /\ PolicyInForce(name) = "disabled" ->
                      Outcome(after) = <<Some("denied"), Some("Tool is disabled: " \o name)>>
                [] name \in RegisteredTools /\ PolicyInForce(name) = "deny" ->
                      Outcome(after) = <<Some("denied"), Some("Tool is denied: " \o name)>>
                [] name \in RegisteredTools /\ PolicyInForce(name) = "ask" ->
                      pc' = "perm" /\ after = CurrentCall
                [] name \in RegisteredTools /\ PolicyInForce(name) = "allow" ->
                      Outcome(after) = <<Some("approved"), None>>
    /\ PromptSettles =>
          LET after == messages'[asstIdx].tool_calls[1][toolIdx]
              answer == log'[Len(log) + 1]
          IN  /\ answer.ev = "returned"
              /\ answer.arg = "false" =>
                    Outcome(after) = <<Some("denied"), Some("Permission denied by user")>>
              /\ answer.arg = "true" => Outcome(after) = <<Some("approved"), None>>

C16_State ==
    \A kj \in ProcessedCalls : CallAt(kj).permissionStatus \in {Some("approved"), Some("denied")}

\* C16: the permission status and error of a processed call are decided by
\* whether the tool is registered, by the policy and by the user's answer, with
\* unknown checked first, then disabled, deny, ask and allow, each with its
\* text; and no processed call is without a status or pending.
C16_OutcomeByPolicy == []C16_State /\ [][C16_Step]_vars

\* a tool round that is over, with one call refused as unknown although the
\* policy for its name would have asked, and one refused by the user
C16_Witness ==
    /\ pc = "notify"
    /\ Len(CurrentCalls) = 2
    /\ \E i, j \in 1..2 :
          /\ CurrentCalls[i].error = Some("Tool not found: " \o CurrentCalls[i].name)
          /\ PolicyInForce(CurrentCalls[i].name) = "ask"
          /\ Outcome(CurrentCalls[j]) = <<Some("denied"), Some("Permission denied by user")>>

\* the first system message of the session, as a sequence of at most one message
FirstSystemMessage ==
    IF \E k \in 1..Len(messages) : messages[k].role = "system"
    THEN <<messages[CHOOSE k \in 1..Len(messages) :
                        /\ messages[k].role = "system"
                        /\ \A j \in 1..(k - 1) : messages[j].role # "system"]>>
    ELSE <<>>

Min(a, b) == IF a <= b THEN a ELSE b

\* out is the first system message followed by the last n messages of conv, in
\* their order, the user messages with their metadata block in front
IsSystemThenLast(out, conv, n) ==
    LET s == Len(FirstSystemMessage)
    IN  /\ Len(out) = s + n
        /\ SubSeq(out, 1, s) = FirstSystemMessage
        /\ \A i \in 1..n :
              LET m == conv[Len(conv) - n + i]
              IN  out[s + i] =
                     IF m.role = "user"
                     THEN [m EXCEPT !.content = Metadata(m.timestamp) \o m.content]
                     ELSE m

\* C17: in rolling mode getActiveMessages returns the first system message of
\* the session, if there is one, followed by exactly the last min(L, 20) of the L
\* conversation messages in their order.
C17_RollingWindow ==
    [][(IsGetActiveMessages /\ contextMode = "rolling") =>
          LET conv == ConversationMessages(messages)
          IN  /\ ~active'.threw
              /\ IsSystemThenLast(active'.messages, conv, Min(Len(conv), RollingWindowSize))]_vars

\* a rolling call on a session with a system message and more than twenty
\* conversation messages returned twenty-one messages, the second being the
\* first of the conversation's last twenty
C17_Witness ==
    /\ active.n > 0
    /\ active.mode = "rolling"
    /\ Len(ConversationMessages(messages)) > RollingWindowSize
    /\ Len(active.messages) = RollingWindowSize + 1
    /\ active.messages[1].role = "system"
    /\ active.messages[2].id =
          ConversationMessages(messages)[Len(ConversationMessages(messages))
                                         - RollingWindowSize + 1].id

\* the text of the summary of n compacted messages, u of them from the user and
\* a from the assistant
SummaryText(n, u, a) ==
    "[Previous conversation summary: " \o ToString(n) \o " messages (" \o ToString(u)
    \o " from user, " \o ToString(a)
    \o " from assistant) have been compacted to save context. The key points and topics discussed are preserved above this message.]"

\* how many of the first n messages of conv have the role
RoleCountAmongFirst(conv, n, role) == Cardinality({i \in 1..n : conv[i].role = role})

\* out is the first system message, one system-role summary of the messages of
\* conv before the last n, and the last n messages of conv
IsSystemSummaryThenLast(out, conv, n) ==
    LET s == Len(FirstSystemMessage)
        older == Len(conv) - n
    IN  /\ Len(out) = s + 1 + n
        /\ out[s + 1].role = "system"
        /\ out[s + 1].content =
              SummaryText(older, RoleCountAmongFirst(conv, older, "user"),
                          RoleCountAmongFirst(conv, older, "assistant"))
        /\ IsSystemThenLast(SubSeq(out, 1, s) \o SubSeq(out, s + 2, Len(out)), conv, n)

\* what the claim C18 says of a compaction call with the given budget
CompactionAsDocumented(budget) ==
    LET conv == ConversationMessages(messages)
        L == Len(conv)
        recentTokens == EstimateMessages(LastN(conv, RecentCount), tokenCache).tokens
    IN  /\ ~active'.threw
        /\ CASE L <= RecentCount -> IsSystemThenLast(active'.messages, conv, L)
             [] L > RecentCount /\ 10 * recentTokens < 8 * budget ->
                   IsSystemSummaryThenLast(active'.messages, conv, RecentCount)
             [] OTHER ->
                   IsSystemThenLast(active'.messages, conv, Min(L, RollingWindowSize))

\* C18: in compaction mode a conversation of at most 10 messages is returned as
\* it is; a longer one whose last 10 messages are estimated below 80% of the
\* budget is returned as one system-role summary counting the L - 10 older
\* messages followed by the last 10; otherwise the rolling window over the whole
\* conversation is returned.
C18_Compaction ==
    [][(IsGetActiveMessages /\ contextMode = "compaction") =>
          CompactionAsDocumented(DocumentedBudget(contextLimit))]_vars

\* C19: the budget of getActiveMessages and of getContextState is the session's
\* contextLimit when that is set and greater than 0, and the provider's maximum
\* when it is unset, 0 or negative: getContextState reports that budget as
\* maxTokens, and the halting check of either call compares with it and names
\* it in its error.
C19_BudgetResolution ==
    [][LET total == EstimateMessages(ConversationMessages(messages), tokenCache).tokens
           budget == DocumentedBudget(contextLimit)
           exceeded == ContextLimitText(total, budget)
       IN  /\ IsGetContextState =>
                IF contextState'.threw
                THEN contextMode = "halting" /\ total > budget /\ contextState'.error = exceeded
                ELSE contextState'.maxTokens = budget
           /\ IsGetActiveMessages =>
                (active'.threw => total > budget /\ active'.error = exceeded)]_vars

\* the stored message with the id of m, for a message of a result that is no summary
StoredOf(m) == messages[CHOOSE k \in 1..Len(messages) : messages[k].id = m.id]
UserMessagesOf(out) == {i \in 1..Len(out) : out[i].role = "user"}

\* every user message of out is a stored message with exactly one metadata
\* block, that of its own timestamp, in front of the stored content
HasOneMetadataBlock(out) ==
    \A i \in UserMessagesOf(out) :
        /\ \E k \in 1..Len(messages) : messages[k].id = out[i].id
        /\ out[i].content = Metadata(StoredOf(out[i]).timestamp) \o StoredOf(out[i]).content
        /\ Len(out[i].content) =
              Len(Metadata(out[i].timestamp)) + Len(StoredOf(out[i]).content)

\* C20: a call of getActiveMessages leaves the stored messages as they are and
\* gives every user message it returns with exactly one metadata block, derived
\* from the message's own timestamp; a user message returned by this call and by
\* the call before has the same content in both and is the same message.
C20_MetadataIdempotent ==
    [][IsGetActiveMessages =>
          /\ messages' = messages
          /\ HasOneMetadataBlock(active'.messages)
          /\ \A i \in UserMessagesOf(active'.messages) :
                \A j \in UserMessagesOf(active.messages) :
                    active.messages[j].id = active'.messages[i].id =>
                        active.messages[j] = active'.messages[i]]_vars

\* a second call of getActiveMessages returned user messages, one of them with
\* its block in front of the stored text
C20_Witness ==
    /\ active.n >= 2
    /\ UserMessagesOf(active.messages) # {}
    /\ \E i \in UserMessagesOf(active.messages) :
          /\ active.messages[i].content = Metadata(active.messages[i].timestamp) \o "hello"
          /\ StoredOf(active.messages[i]).content = "hello"

(***************************************************************************)
(* Properties of the TokenEstimator.                                       *)
(***************************************************************************)
\* the sum of ceil(chars / 4) over the messages, each from its current fields
RECURSIVE SumOfComputed(_)
SumOfComputed(ms) == IF ms = <<>> THEN 0 ELSE ComputeTokens(Head(ms)) + SumOfComputed(Tail(ms))

\* C21: whatever calls the estimator has served before, estimateMessage(m) of a
\* stored message m is ceil((content + thinking + serialized tool_calls) / 4)
\* of m's current fields, and estimateMessages is the sum of these values.
C21_EstimateIsPure ==
    /\ \A k \in 1..Len(messages) :
          EstimateMessage(messages[k], tokenCache).tokens = ComputeTokens(messages[k])
    /\ EstimateMessages(ConversationMessages(messages), tokenCache).tokens
          = SumOfComputed(ConversationMessages(messages))

\* a step that is one saveMessageEdit of the stored message k: its timestamp changes
IsEditOf(k) ==
    /\ Len(messages') = Len(messages)
    /\ k \in 1..Len(messages)
    /\ messages'[k].id = messages[k].id
    /\ messages'[k].timestamp # messages[k].timestamp

\* a step that is one clearCache
IsClearCache == DOMAIN tokenCache # {} /\ DOMAIN tokenCache' = {}

\* what estimateMessage returns for m after the step
EstimateAfter(m) == EstimateMessage(m, tokenCache').tokens

\* C22: the estimator keeps what it computed first for an (id, timestamp) and
\* returns it for every later call with that pair; once an edit has changed a
\* message's timestamp, and once clearCache has run, estimateMessage of the
\* message is computed from its current content.
C22_CacheByIdAndTimestamp ==
    [][/\ \A key \in DOMAIN tokenCache :
             IsClearCache \/ (key \in DOMAIN tokenCache' /\ tokenCache'[key] = tokenCache[key])
       /\ \A k \in 1..Len(messages) :
             GetCacheKey(messages[k]) \in DOMAIN tokenCache =>
                 EstimateMessage(messages[k], tokenCache).tokens
                    = tokenCache[GetCacheKey(messages[k])]
       /\ \A k \in 1..Len(messages) :
             IsEditOf(k) => EstimateAfter(messages'[k]) = ComputeTokens(messages'[k])
       /\ IsClearCache =>
             \A k \in 1..Len(messages') :
                 EstimateAfter(messages'[k]) = ComputeTokens(messages'[k])]_vars

\* C23: every call of getContextState, in every context mode, returns the
\* stored messages, the active messages, their estimate and the budget without
\* throwing, and leaves session.messages and every stored message as they were.
C23_ContextStateTotal ==
    [][IsGetContextState =>
          /\ ~contextState'.threw
          /\ contextState'.messages = messages
          /\ messages' = messages]_vars

(***************************************************************************)
(* The ToolRegistry alone: tools are registered, and registered again, on  *)
(* an empty registry, and getEnabledTools is called with a permission map. *)
(***************************************************************************)
RegInit ==
    /\ messages = <<>>
    /\ contextMode = "rolling"
    /\ contextLimit = 0
    /\ updatedAt = LatestTimestamp(messages)
    /\ permissions \in PermissionMaps
    /\ tools = <<>>
    /\ tokenCache = [k \in {} |-> 0]
    /\ active = NoActive
    /\ contextState = NoContextState
    /\ enabled = NoEnabled
    /\ ViewAtRest
    /\ pc = "idle"
    /\ round = 0
    /\ draft = Message(0, "assistant", "")
    /\ think = FALSE
    /\ output = 0
    /\ asstIdx = 0
    /\ toolIdx = 0
    /\ openStreams = 0
    /\ aborted = FALSE
    /\ abortedAt = ""
    /\ runResult = "pending"
    /\ nextId = 3
    /\ log = <<>>
    /\ initMessages = <<>>
    /\ roundStart = <<>>
    /\ ctxFailedRound = 0

\* the variables the ToolRegistry does not touch
sessionVars ==
    <<messages, contextMode, contextLimit, updatedAt, tokenCache, active, contextState>>

\* toolRegistry.register(tool)
RegisterTool(tool) ==
    /\ tools' = Register(tools, tool)
    /\ UNCHANGED <<enabled, sessionVars, viewVars, loopVars>>

\* toolRegistry.getEnabledTools(permissionManager.getAllPermissions())
GetEnabledToolsCall ==
    /\ enabled.n < MaxCalls
    /\ enabled' = [n |-> enabled.n + 1, definitions |-> GetEnabledTools(tools, permissions)]
    /\ UNCHANGED <<sessionVars, tools, viewVars, loopVars>>

RegNext ==
    \/ \E tool \in ToolVersions : RegisterTool(tool)
    \/ GetEnabledToolsCall

RegSpec == RegInit /\ [][RegNext]_vars

\* the step is a call of getEnabledTools
IsGetEnabledTools == enabled'.n = enabled.n + 1
\* the tools of a list that carry the name
NamedIn(seq, name) == {i \in 1..Len(seq) : seq[i].name = name}
\* the definitions getEnabledTools is documented to give on the registry and
\* the permission map of the state
DocumentedDefinitions ==
    {[type |-> "function",
      function |-> [name |-> tools[i].name, description |-> tools[i].description]] :
        i \in {j \in 1..Len(tools) : PolicyInForce(tools[j].name) # "disabled"}}

\* C24: getEnabledTools returns exactly the definitions of the registered
\* tools whose policy in the permission map, ask when the map has none, is not
\* disabled, so tools with ask, allow or deny are advertised; and a tool
\* registered under a name the registry holds takes the place of the earlier
\* one, so no name is registered, or advertised, twice.
C24_EnabledTools ==
    /\ [][IsGetEnabledTools =>
            LET defs == enabled'.definitions
            IN  /\ {defs[i] : i \in 1..Len(defs)} = DocumentedDefinitions
                /\ \A i, j \in 1..Len(defs) :
                       defs[i].function.name = defs[j].function.name => i = j]_vars
    /\ [][tools' # tools =>
            \E tool \in ToolVersions :
               /\ \E i \in 1..Len(tools') : tools'[i] = tool
               /\ \A name \in ToolNames :
                     /\ Cardinality(NamedIn(tools', name)) <= 1
                     /\ name # tool.name => NamedIn(tools', name) = NamedIn(tools, name)
               /\ \A i \in 1..Len(tools) : tools[i].name # tool.name => tools'[i] = tools[i]]_vars
\* getEnabledTools was called on a registry of three tools, the first of them
\* registered a second time, under a map that denies one tool, disables
\* another and has no policy for the third
C24_Witness ==
    /\ enabled.n > 0
    /\ Len(tools) = 3
    /\ tools[1] = Tool("vault_read", "second version")
    /\ tools[2].name = "list_references"
    /\ permissions = [n \in {"vault_read", "list_references"} |->
                         IF n = "vault_read" THEN "deny" ELSE "disabled"]
    /\ enabled.definitions =
          <<ToDefinition(tools[1]), ToDefinition(tools[3])>>

\* the events a step adds to the log
Logged == SubSeq(log', Len(log) + 1, Len(log'))
\* the step is the one a failed getModelInfo leads to
AfterFailedModelInfo == ModelInfo("failed")

\* C25: every provider stream is opened right after a model-info query of the
\* same run; and when the query fails, the round goes on with think false: the
\* stream is opened, the turn stays pending and onError is not called.
C25_ModelInfoFailureTolerated ==
    /\ [](\A i \in 1..Len(log) :
            log[i].ev = "generate" => i > 1 /\ log[i - 1].ev = "getModelInfo")
    /\ [][AfterFailedModelInfo =>
            /\ think' = FALSE
            /\ pc' = "stream"
            /\ runResult' = "pending"
            /\ Logged = <<Ev("generate", "")>>
            /\ messages' = messages]_vars
\* the second round of a turn streams without thinking, as it does after a
\* failed query: two queries were made, and the round delivered content
C25_Witness ==
    /\ round = 2
    /\ pc = "stream"
    /\ ~think
    /\ draft.content # ""
    /\ Len(SelectSeq(log, LAMBDA e : e.ev = "getModelInfo")) = 2

\* the tool calls stored in the session
StoredCalls == {CallAt(kj) : kj \in CallsOfSession}

\* C26: no tool call of the session has both a result and an error.
C26_ResultXorError ==
    \A c \in StoredCalls : ~(IsSome(c.result) /\ IsSome(c.error))
\* the session holds a call that was executed and gave a result and a call
\* whose execution failed
C26_Witness ==
    \E c1, c2 \in StoredCalls :
        /\ IsSome(c1.result) /\ c1.permissionStatus = Some("approved")
        /\ IsSome(c2.error) /\ c2.permissionStatus = Some("approved")
        /\ Len(SelectSeq(log, LAMBDA e : e.ev = "threw")) = 1

\* the step changes what the session stores
MutatesSession ==
    \/ messages' # messages
    \/ contextMode' # contextMode
    \/ contextLimit' # contextLimit

\* C27: session.updatedAt never decreases, and every step that changes the
\* session, the removal of the last message by regenerateLastMessage and the
\* message continueGeneration adds included, moves it to the time of the step.
C27_UpdatedAtBumped ==
    /\ [][updatedAt' >= updatedAt]_vars
    /\ [][MutatesSession => updatedAt' = Now /\ updatedAt' > updatedAt]_vars

\* the events of the log that prompt for, or execute, a tool call
CallEvents == {i \in 1..Len(log) : log[i].ev \in {"onToolPermission", "execute"}}
\* the message is an assistant message frozen with tool calls
IsFrozenWithCalls(m) ==
    /\ m.role = "assistant"
    /\ IsSome(m.tool_calls)
    /\ m.isStreaming = Some(FALSE)

\* C28: the step that takes a tool_call chunk appends the draft, with the
\* chunk's tool calls and isStreaming false, to the session; every permission
\* prompt and every tool execution is about a call of a message the session
\* already holds in that form; and such a message keeps its place in the
\* session whatever follows, a cancelled or failed turn included.
C28_DraftStoredBeforeTools ==
    /\ [][\A tc \in ToolCallLists :
            ChunkToolCall(tc) =>
               /\ messages' = Append(messages,
                                [draft EXCEPT !.tool_calls = tc, !.isStreaming = Some(FALSE)])
               /\ CallEvents = {i \in 1..Len(log') :
                                   log'[i].ev \in {"onToolPermission", "execute"}}]_vars
    /\ [](\A i \in CallEvents :
            /\ log[i].msg \in 1..Len(messages)
            /\ IsFrozenWithCalls(messages[log[i].msg])
            /\ log[i].idx \in 1..Len(messages[log[i].msg].tool_calls[1])
            /\ messages[log[i].msg].tool_calls[1][log[i].idx].name = log[i].arg)
    /\ [][\A k \in 1..Len(messages) :
            IsFrozenWithCalls(messages[k]) =>
               /\ k <= Len(messages')
               /\ messages'[k].id = messages[k].id
               /\ IsFrozenWithCalls(messages'[k])
               /\ messages'[k].content = messages[k].content
               /\ Len(messages'[k].tool_calls[1]) = Len(messages[k].tool_calls[1])]_vars
\* a turn was cancelled in its second round, after a tool of the first round
\* was executed: the message with the tool calls is in the session
C28_Witness ==
    /\ pc = "done"
    /\ round = 2
    /\ log[Len(log)].ev = "onError"
    /\ log[Len(log)].arg = "Generation cancelled"
    /\ \E i \in CallEvents : log[i].ev = "execute" /\ log[i].msg = asstIdx
    /\ IsFrozenWithCalls(messages[asstIdx])

(***************************************************************************)
(* The chat loop under the assumption that whatever it awaits settles:     *)
(* getModelInfo answers or fails, the provider delivers the next chunk or  *)
(* ends the stream, the permission prompt is answered, the tool resolves   *)
(* or throws, and onToolCallsComplete settles.  Streams are finite and     *)
(* tool_call chunks come in finitely many rounds because the provider's    *)
(* output is bounded by MaxOutput.  The user is under no obligation to     *)
(* start a turn, to cancel or to change the settings.                      *)
(***************************************************************************)
LoopStep ==
    \/ \E outcome \in {"thinking", "plain", "failed"} : ModelInfo(outcome)
    \/ \E type \in ChunkTypes : StreamCancelled(type)
    \/ ChunkContent
    \/ ChunkThinking
    \/ \E tc \in ToolCallLists : ChunkToolCall(tc)
    \/ ChunkDone
    \/ StreamEnd
    \/ \E err \in {None, Some("HTTP 500: Internal Server Error")} : ChunkError(err)
    \/ ProviderThrows("Failed to fetch")
    \/ ProcessToolCall
    \/ \E approved \in BOOLEAN : PermissionResolved(approved)
    \/ \E res \in {"x", "", ListReferencesResult(messages)} : ExecuteResolved(res)
    \/ ExecuteRejected("File not found: n")
    \/ FinishToolCalls
    \/ ContinueGeneration

FairSpec == Spec /\ WF_vars(LoopStep)

\* onComplete or onError was called
OutcomeSignalled == Count("onComplete") + Count("onError") >= 1

\* every turn that was started ends
RunEnds == (pc # "idle") ~> (pc = "done")

\* C29: when everything the loop awaits settles and the provider's output is
\* finite, a turn that was started ends with run returned and a terminal
\* outcome, onComplete or onError, signalled.
C29_ReturnsWithOutcome ==
    (pc # "idle") ~> (pc = "done" /\ runResult = "resolved" /\ OutcomeSignalled)

\* s written n times
RECURSIVE Repeated(_, _)
Repeated(s, n) == IF n = 0 THEN "" ELSE s \o Repeated(s, n - 1)
\* where the last round asked the provider for its stream
LastGenerate == Max(Positions("generate"))
\* how many chunks of the kind the last round delivered
FinalChunks(kind) ==
    Cardinality({i \in Positions("onChunk") : i > LastGenerate /\ log[i].arg = kind})
\* the step calls onComplete
CallsOnComplete ==
    \E i \in (Len(log) + 1)..Len(log') : log'[i].ev = "onComplete"

ForwardedTypes == {"content", "thinking", "tool_call", "done"}
\* the delivery at position i of the log is answered by onChunk, at once
ForwardedAt(i) ==
    /\ i < Len(log)
    /\ log[i + 1].ev = "onChunk"
    /\ log[i + 1].arg = log[i].arg
\* every onChunk call answers the delivery right before it
OnChunkOnlyForDeliveries ==
    \A j \in Positions("onChunk") :
        /\ j > 1
        /\ log[j - 1].ev = "delivered"
        /\ log[j - 1].arg = log[j].arg
        /\ log[j].arg \in ForwardedTypes
\* an error chunk is answered by onError
ErrorChunksReported ==
    \A i \in Positions("delivered") :
        log[i].arg = "error" /\ ~log[i].aborted =>
            i < Len(log) /\ log[i + 1].ev = "onError"

\* C31 as stated: every content, thinking, tool_call and done chunk the
\* provider delivers is forwarded to onChunk, once and before the next chunk
\* is taken, and an error chunk goes to onError and never to onChunk.
C31_EveryChunkForwarded ==
    /\ \A i \in Positions("delivered") : log[i].arg \in ForwardedTypes => ForwardedAt(i)
    /\ OnChunkOnlyForDeliveries
    /\ ErrorChunksReported

\* C31 amended: every content, thinking, tool_call and done chunk the provider
\* delivers while the signal is not raised is forwarded to onChunk, once and
\* before the next chunk is taken; an error chunk goes to onError and never to
\* onChunk; a chunk of any type delivered with the signal raised is not
\* forwarded: the provider is cancelled and onError gets 'Generation cancelled'.
C31_ChunksForwardedUnlessCancelled ==
    /\ \A i \in Positions("delivered") :
          /\ log[i].arg \in ForwardedTypes /\ ~log[i].aborted => ForwardedAt(i)
          /\ log[i].aborted =>
                /\ Len(log) = i + 2
                /\ log[i + 1].ev = "cancelGeneration"
                /\ log[i + 2].ev = "onError"
                /\ log[i + 2].arg = "Generation cancelled"
    /\ OnChunkOnlyForDeliveries
    /\ ErrorChunksReported
\* a round forwarded a content chunk and a thinking chunk, and the chunk the
\* provider delivered after the signal was raised was dropped
C31_Witness ==
    /\ Count("onChunk") = 2
    /\ \E i \in Positions("delivered") : log[i].aborted /\ log[i].arg = "content"
    /\ \E i \in Positions("delivered") : log[i].arg = "thinking" /\ ForwardedAt(i)
    /\ pc = "done"

\* the messages the loop appended in the turn
AppendedInTurn == {k \in 1..Len(messages) : k > Len(initMessages)}

\* C32: no message the loop appended to the session is marked as streaming,
\* the last assistant message of a round whose stream ended without a done
\* chunk included.
C32_AppendedNotStreaming ==
    \A k \in AppendedInTurn : messages[k].isStreaming # Some(TRUE)

\* the calls the loop starts work with: a permission prompt, a tool execution,
\* a model-info query, a generation request
StartingCalls ==
    Positions("onToolPermission") \cup Positions("execute")
        \cup Positions("getModelInfo") \cup Positions("generate")

\* C33: with the cancellation signal raised, whenever in the turn it was
\* raised, the loop starts no permission prompt and no tool execution and
\* makes no getModelInfo and no generate call.
C33_NothingStartedAfterCancel ==
    \A i \in StartingCalls : ~log[i].aborted

\* C34: in halting mode, when getActiveMessages returns, the estimate of the
\* list it returns, system message and metadata blocks included, is within the
\* budget; and so is the currentTokens getContextState reports.
C34_HaltingWithinBudget ==
    /\ [][(IsGetActiveMessages /\ contextMode = "halting" /\ ~active'.threw) =>
            SumOfComputed(active'.messages) <= DocumentedBudget(contextLimit)]_vars
    /\ [][(IsGetContextState /\ contextMode = "halting" /\ ~contextState'.threw) =>
            contextState'.currentTokens <= DocumentedBudget(contextLimit)]_vars

(***************************************************************************)
(* Properties of the command handlers of one ChatView, over TurnSpec.      *)
(***************************************************************************)
\* the runChatLoop invocations between their first statement and the end of
\* their finally block, and those whose ChatLoop.run has not returned
ActiveRuns == {t \in 1..MaxCommands : tasks[t].pc \in RunPcs}
InFlight == {t \in 1..MaxCommands : tasks[t].pc = "run"}

\* C35: under any interleaving of send, regenerate, continue, ESC and
\* session-save completions in one view, at most one runChatLoop invocation
\* is active at a time, and while a turn is in flight the view's
\* abortController is the controller whose signal that turn was given.
C35_OneRunWithItsController ==
    /\ Cardinality(ActiveRuns) <= 1
    /\ \A t \in InFlight : abortController = tasks[t].signal

\* C36: once onClose has completed for a view with a session, the session's
\* id is in neither settings.openSessions nor settings.chatSessions.
C36_ClosedSessionForgotten ==
    closing = "closed" => SessionId \notin openSessions /\ SessionId \notin chatSessions

====
